---------------------------- MODULE Spec2Model ----------------------------
(* Model of bydit: retrieval of a user's posts and comments, the filter    *)
(* predicates, normalisation into UnifiedItem, the ordering handed to the  *)
(* actions, and the action routines (overwrite, delete, CSV export,        *)
(* console print) together with main's own deletion loop.                  *)
(*                                                                         *)
(* Strings are sequences of one-character strings.  Option<T> is a         *)
(* sequence of length 0 (None) or 1 (Some).  Timestamps and scores are     *)
(* integers (the remote sends integral values).                            *)
EXTENDS Integers, Sequences, FiniteSets, TLC

VARIABLES
    pc,                   \* position of the running routine
    do_fetch_posts,       \* fetch_user_items argument / main's fetch_posts
    do_fetch_comments,    \* fetch_user_items argument / main's fetch_comments
    crit,                 \* the filter arguments of the call
    item_type,            \* main: cli.item_type
    raw_posts,            \* the post listing the remote returned
    post_requests,        \* number of post listing requests issued
    post_after,           \* the cursor the post listing response carried
    all_items,            \* Vec<UnifiedItem> being built
    all_fetched_comments, \* accumulator of raw comments
    after_token,          \* cursor for the next comment page
    page_count,           \* number of comment page requests issued
    requests,             \* cursors sent with the comment page requests
    last_page,            \* the last comment page response
    result,               \* what fetch_user_items returned, None while running
    handler,              \* the action routine running or last run
    session,              \* the authenticated session handed to the actions
    items_at_call,        \* the item sequence as the routine received it
    overwrite_text,       \* handle_overwrite_action argument
    skip_confirmation,    \* handle_delete_action argument
    confirmed_to_delete,  \* handle_delete_action local
    index,                \* items the routine's loop has gone through
    success_count,        \* overwrite_success_count / deleted_count
    fail_count,           \* overwrite_fail_count / failed_count / skipped_count
    prompts,              \* confirmation prompts printed by the routine
    stdin_reads,          \* lines the routine read from standard input
    api_requests,         \* edit and delete requests the routine issued
    output,               \* what the routine wrote (CSV file or standard output)
    action_result,        \* what the routine returned, None while running
    debug_mode,           \* cli.debug / the debug_mode argument
    stderr,               \* lines written to the error stream
    failures,             \* the failures that occurred, in order
    csv_path,             \* handle_csv_export argument file_path
    previous_export,      \* the file the call just before exported, if it did
    util_input,           \* argument of the utility function applied
    util_output           \* what the utility function returned

retrieval_vars ==
    <<do_fetch_posts, do_fetch_comments, crit, item_type, raw_posts,
      post_requests, post_after, all_fetched_comments, after_token, page_count,
      requests, last_page, result>>

action_vars ==
    <<handler, session, items_at_call, overwrite_text, skip_confirmation,
      confirmed_to_delete, index, success_count, fail_count, prompts,
      stdin_reads, api_requests, output, action_result>>

report_vars == <<debug_mode, stderr, failures>>

export_vars == <<csv_path, previous_export>>

util_vars == <<util_input, util_output>>

vars ==
    <<pc, all_items, retrieval_vars, action_vars, report_vars, export_vars,
      util_vars>>

(***************************************************************************)
(* Bounds                                                                  *)
(***************************************************************************)
MaxPages == 3      \* comment pages requested in one run
MaxStrLen == 3     \* length of an enumerated subreddit-list option string
MaxReads == 3      \* lines main's deletion loop reads in one run
MaxFieldLen == 4   \* length of an enumerated field handed to escape_csv_field

(***************************************************************************)
(* Option and string primitives                                            *)
(***************************************************************************)
None == <<>>
Some(x) == <<x>>
is_some(o) == o # <<>>
is_none(o) == o = <<>>
unwrap_or(o, d) == IF o = <<>> THEN d ELSE o[1]

LowerChar(c) ==
    CASE c = "A" -> "a"
      [] c = "B" -> "b"
      [] c = "P" -> "p"
      [] c = "Y" -> "y"
      [] c = "E" -> "e"
      [] c = "S" -> "s"
      [] c = "N" -> "n"
      [] OTHER -> c

to_lowercase(s) == [i \in 1..Len(s) |-> LowerChar(s[i])]

eq_ignore_ascii_case(s, t) == to_lowercase(s) = to_lowercase(t)

is_whitespace(c) == c \in {" ", "\n", "\r", "\t"}

RECURSIVE trim_start(_)
trim_start(s) ==
    IF s # <<>> /\ is_whitespace(Head(s)) THEN trim_start(Tail(s)) ELSE s

RECURSIVE trim_end(_)
trim_end(s) ==
    IF s # <<>> /\ is_whitespace(s[Len(s)])
    THEN trim_end(SubSeq(s, 1, Len(s) - 1))
    ELSE s

trim(s) == trim_end(trim_start(s))

RECURSIVE split(_, _)
split(s, sep) ==
    IF \A i \in 1..Len(s) : s[i] # sep
    THEN <<s>>
    ELSE LET i == CHOOSE k \in 1..Len(s) :
                      s[k] = sep /\ \A j \in 1..(k - 1) : s[j] # sep
         IN  <<SubSeq(s, 1, i - 1)>> \o split(SubSeq(s, i + 1, Len(s)), sep)

contains(haystack, needle) ==
    \E i \in 0..(Len(haystack) - Len(needle)) :
        SubSeq(haystack, i + 1, i + Len(needle)) = needle

any(list, x) == \E i \in 1..Len(list) : list[i] = x


(***************************************************************************)
(* fetch_user_items: parsing of the subreddit list options                 *)
(***************************************************************************)
trim_lower(sr) == to_lowercase(trim(sr))
non_empty(sr) == sr # <<>>

parse_subreddit_list(opt) ==
    IF opt = None
    THEN None
    ELSE LET entries == split(opt[1], ",")
         IN  Some(SelectSeq([i \in 1..Len(entries) |-> trim_lower(entries[i])],
                            non_empty))

(***************************************************************************)
(* fetch_user_items: the predicates of the post filter closure             *)
(***************************************************************************)
post_include_match(post, include_subreddits) ==
    IF include_subreddits = None
    THEN TRUE
    ELSE any(include_subreddits[1], to_lowercase(post.subreddit))

post_exclude_match(post, exclude_subreddits) ==
    IF exclude_subreddits = None
    THEN TRUE
    ELSE ~any(exclude_subreddits[1], to_lowercase(post.subreddit))

post_score_match(post, filter_score) ==
    IF filter_score = None THEN TRUE ELSE post.ups >= filter_score[1]

post_max_score_match(post, filter_max_score) ==
    IF filter_max_score = None THEN TRUE ELSE post.ups < filter_max_score[1]

post_min_age_match(post, min_age_timestamp) ==
    IF min_age_timestamp = None
    THEN TRUE
    ELSE post.created_utc <= min_age_timestamp[1]

post_max_age_match(post, max_age_timestamp) ==
    IF max_age_timestamp = None
    THEN TRUE
    ELSE post.created_utc >= max_age_timestamp[1]

post_filter(post, c) ==
    /\ post_include_match(post, parse_subreddit_list(c.filter_subreddit))
    /\ post_exclude_match(post, parse_subreddit_list(c.exclude_subreddit))
    /\ post_score_match(post, c.filter_score)
    /\ post_max_score_match(post, c.filter_max_score)
    /\ post_min_age_match(post, c.min_age_timestamp)
    /\ post_max_age_match(post, c.max_age_timestamp)

normalize_post(post_data) ==
    [id           |-> post_data.name,
     item_type    |-> <<"P", "o", "s", "t">>,
     subreddit    |-> post_data.subreddit,
     title        |-> post_data.title,
     content      |-> post_data.selftext,
     upvotes      |-> post_data.ups,
     num_comments |-> post_data.num_comments,
     permalink    |-> post_data.permalink,
     created_utc  |-> post_data.created_utc]

normalize_posts(filtered_posts) ==
    [i \in 1..Len(filtered_posts) |-> normalize_post(filtered_posts[i])]

(***************************************************************************)
(* fetch_user_items: the predicates of the comment filter closure          *)
(***************************************************************************)
comment_subreddit_of(comment) ==
    IF comment.subreddit = None THEN None ELSE Some(to_lowercase(comment.subreddit[1]))

comment_include_match(comment, include_subreddits) ==
    IF include_subreddits = None
    THEN TRUE
    ELSE IF comment_subreddit_of(comment) = None
         THEN FALSE
         ELSE any(include_subreddits[1], comment_subreddit_of(comment)[1])

comment_exclude_match(comment, exclude_subreddits) ==
    IF exclude_subreddits = None
    THEN TRUE
    ELSE IF comment_subreddit_of(comment) = None
         THEN FALSE
         ELSE ~any(exclude_subreddits[1], comment_subreddit_of(comment)[1])

comment_score_match(comment, filter_score) ==
    IF filter_score = None
    THEN TRUE
    ELSE IF comment.score = None THEN TRUE ELSE comment.score[1] >= filter_score[1]

comment_max_score_match(comment, filter_max_score) ==
    IF filter_max_score = None
    THEN TRUE
    ELSE IF comment.score = None THEN TRUE ELSE comment.score[1] < filter_max_score[1]

older_than_match(comment, min_age_timestamp) ==
    IF min_age_timestamp = None
    THEN TRUE
    ELSE IF comment.created_utc = None
         THEN TRUE
         ELSE comment.created_utc[1] <= min_age_timestamp[1]

newer_than_match(comment, max_age_timestamp) ==
    IF max_age_timestamp = None
    THEN TRUE
    ELSE IF comment.created_utc = None
         THEN TRUE
         ELSE comment.created_utc[1] >= max_age_timestamp[1]

(* Mutant: the title comparison without case folding.                      *)
post_title_match_case_sensitive(comment, filter_post_title) ==
    IF filter_post_title = None
    THEN TRUE
    ELSE IF comment.link_title = None
         THEN FALSE
         ELSE contains(comment.link_title[1], filter_post_title[1])

post_title_match(comment, filter_post_title) ==
    IF filter_post_title = None
    THEN TRUE
    ELSE IF comment.link_title = None
         THEN FALSE
         ELSE contains(to_lowercase(comment.link_title[1]),
                       to_lowercase(filter_post_title[1]))

(* Mutant: the two score predicates joined by "or" instead of "and".       *)
comment_filter_either_score(comment, c) ==
    /\ comment_include_match(comment, parse_subreddit_list(c.filter_subreddit))
    /\ comment_exclude_match(comment, parse_subreddit_list(c.exclude_subreddit))
    /\ \/ comment_score_match(comment, c.filter_score)
       \/ comment_max_score_match(comment, c.filter_max_score)
    /\ older_than_match(comment, c.min_age_timestamp)
    /\ newer_than_match(comment, c.max_age_timestamp)
    /\ post_title_match(comment, c.filter_post_title)

comment_filter(comment, c) ==
    /\ comment_include_match(comment, parse_subreddit_list(c.filter_subreddit))
    /\ comment_exclude_match(comment, parse_subreddit_list(c.exclude_subreddit))
    /\ comment_score_match(comment, c.filter_score)
    /\ comment_max_score_match(comment, c.filter_max_score)
    /\ older_than_match(comment, c.min_age_timestamp)
    /\ newer_than_match(comment, c.max_age_timestamp)
    /\ post_title_match(comment, c.filter_post_title)

normalize_comment(comment_data) ==
    [id           |-> unwrap_or(comment_data.name, <<>>),
     item_type    |-> <<"C", "o", "m", "m", "e", "n", "t">>,
     subreddit    |-> unwrap_or(comment_data.subreddit, <<>>),
     title        |-> unwrap_or(comment_data.link_title, <<>>),
     content      |-> unwrap_or(comment_data.body, <<>>),
     upvotes      |-> unwrap_or(comment_data.score, 0),
     num_comments |-> 0,
     permalink    |-> unwrap_or(comment_data.permalink, <<>>),
     created_utc  |-> unwrap_or(comment_data.created_utc, 0)]

normalize_comments(filtered_comments) ==
    [i \in 1..Len(filtered_comments) |-> normalize_comment(filtered_comments[i])]

(***************************************************************************)
(* main: the filters and normalisation of its inline retrieval             *)
(***************************************************************************)
main_post_filter(post, c) ==
    /\ IF c.filter_subreddit = None
       THEN TRUE
       ELSE eq_ignore_ascii_case(post.subreddit, c.filter_subreddit[1])
    /\ IF c.filter_score = None THEN TRUE ELSE post.ups >= c.filter_score[1]

main_comment_filter(comment, c) ==
    /\ IF c.filter_subreddit = None
       THEN TRUE
       ELSE IF comment.subreddit = None
            THEN FALSE
            ELSE eq_ignore_ascii_case(comment.subreddit[1], c.filter_subreddit[1])
    /\ IF c.filter_score = None
       THEN TRUE
       ELSE unwrap_or(comment.ups, 0) >= c.filter_score[1]

main_normalize_comment(comment_data) ==
    [id           |-> unwrap_or(comment_data.name, <<>>),
     item_type    |-> <<"C", "o", "m", "m", "e", "n", "t">>,
     subreddit    |-> unwrap_or(comment_data.subreddit, <<>>),
     title        |-> unwrap_or(comment_data.link_title, <<>>),
     content      |-> unwrap_or(comment_data.body, <<>>),
     upvotes      |-> unwrap_or(comment_data.ups, 0),
     num_comments |-> 0,
     permalink    |-> unwrap_or(comment_data.permalink, <<>>),
     created_utc  |-> unwrap_or(comment_data.created_utc, 0)]

main_normalize_comments(filtered_comments) ==
    [i \in 1..Len(filtered_comments) |-> main_normalize_comment(filtered_comments[i])]

(* all_items.sort_by(|a, b| b.created_utc.partial_cmp(&a.created_utc)...):  *)
(* a stable sort; a is placed before b when b.created_utc < a.created_utc.  *)
(* Mutant: the comparison also moves an item before its equals.            *)
sorts_before_or_equal(a, b) == b.created_utc <= a.created_utc

sorts_before(a, b) == b.created_utc < a.created_utc

RECURSIVE insert_stable(_, _)
insert_stable(sorted, x) ==
    IF sorted = <<>>
    THEN <<x>>
    ELSE IF sorts_before(x, Head(sorted))
         THEN <<x>> \o sorted
         ELSE <<Head(sorted)>> \o insert_stable(Tail(sorted), x)

RECURSIVE sort_by_created_desc(_)
sort_by_created_desc(items) ==
    IF items = <<>>
    THEN <<>>
    ELSE insert_stable(sort_by_created_desc(SubSeq(items, 1, Len(items) - 1)),
                       items[Len(items)])

(* The two termination tests of the comment loop, evaluated after the page *)
(* was appended and the cursor advanced.                                   *)
(* Mutant: the client stops after the second page whatever it holds.       *)
loop_breaks_with_page_cap(new_after_token, num_fetched_this_page, new_page_count) ==
    IF is_none(new_after_token)
    THEN TRUE
    ELSE (num_fetched_this_page = 0 /\ new_page_count > 1) \/ new_page_count >= 2

(* Mutant: the empty-page test forgets that the first page is exempt.      *)
loop_breaks_on_any_empty_page(new_after_token, num_fetched_this_page, new_page_count) ==
    IF is_none(new_after_token)
    THEN TRUE
    ELSE num_fetched_this_page = 0

loop_breaks(new_after_token, num_fetched_this_page, new_page_count) ==
    IF is_none(new_after_token)
    THEN TRUE
    ELSE num_fetched_this_page = 0 /\ new_page_count > 1

(***************************************************************************)
(* The remote service as the pipeline sees it: a small catalogue of raw    *)
(* posts and comments, the listings and pages it may answer with.          *)
(***************************************************************************)
PostNew ==
    [name |-> <<"p", "1">>, subreddit |-> <<"A">>, title |-> <<"a", "b">>,
     selftext |-> <<"b">>, ups |-> 1, num_comments |-> 1,
     permalink |-> <<"/", "p", "1">>, created_utc |-> 2]

PostOld ==
    [name |-> <<"p", "2">>, subreddit |-> <<"b">>, title |-> <<"b">>,
     selftext |-> <<>>, ups |-> 0, num_comments |-> 0,
     permalink |-> <<"/", "p", "2">>, created_utc |-> 1]

CommentFull ==
    [name |-> Some(<<"c", "1">>), subreddit |-> Some(<<"a">>),
     link_title |-> Some(<<"A", "b">>), body |-> Some(<<"b">>),
     score |-> Some(1), ups |-> Some(1),
     permalink |-> Some(<<"/", "c", "1">>), created_utc |-> Some(2)]

CommentBare ==
    [name |-> None, subreddit |-> None, link_title |-> None, body |-> None,
     score |-> None, ups |-> None, permalink |-> None, created_utc |-> None]

CommentOld ==
    [name |-> Some(<<"c", "3">>), subreddit |-> Some(<<"b">>),
     link_title |-> Some(<<"b">>), body |-> Some(<<"a">>),
     score |-> Some(2), ups |-> Some(2),
     permalink |-> Some(<<"/", "c", "3">>), created_utc |-> Some(1)]

PostListings == {<<>>, <<PostNew>>, <<PostOld, PostNew>>}
CommentPages == {<<>>, <<CommentFull>>, <<CommentBare, CommentOld>>}
Cursors == {None, Some(<<"a">>), Some(<<"b">>)}

PostResponses ==
    [kind : {"ok"}, children : PostListings, after : Cursors]
        \cup {[kind |-> "send_err", children |-> <<>>, after |-> None],
              [kind |-> "json_err", children |-> <<>>, after |-> None]}

CommentResponses ==
    [kind : {"ok"}, children : CommentPages, after : Cursors]
        \cup {[kind |-> "send_err", children |-> <<>>, after |-> None],
              [kind |-> "json_err", children |-> <<>>, after |-> None]}

EmptyCriteria ==
    [filter_subreddit |-> None, exclude_subreddit |-> None,
     filter_score |-> None, filter_max_score |-> None,
     min_age_timestamp |-> None, max_age_timestamp |-> None,
     filter_post_title |-> None]

PipelineCriteria ==
    {EmptyCriteria, [EmptyCriteria EXCEPT !.filter_score = Some(1)]}

ItemTypes ==
    {None, Some(<<"p", "o", "s", "t", "s">>), Some(<<"P", "o", "s", "t", "s">>),
     Some(<<"c", "o", "m", "m", "e", "n", "t", "s">>), Some(<<"b", "o", "t", "h">>),
     Some(<<"p", "o", "s", "t">>), Some(<<"c", "o", "m", "m", "e", "n", "t">>)}

Startups == {"ok", "config_missing", "config_invalid", "login_err", "me_err"}

Ok(items) == Some([tag |-> "Ok", items |-> items])
Err(kind) == Some([tag |-> "Err", items |-> <<>>, error |-> kind])

(***************************************************************************)
(* Initial state: nothing has been called yet.                             *)
(***************************************************************************)
Init ==
    /\ pc = "start"
    /\ do_fetch_posts = FALSE
    /\ do_fetch_comments = FALSE
    /\ crit = EmptyCriteria
    /\ item_type = None
    /\ raw_posts = <<>>
    /\ post_requests = 0
    /\ post_after = None
    /\ all_items = <<>>
    /\ all_fetched_comments = <<>>
    /\ after_token = None
    /\ page_count = 0
    /\ requests = <<>>
    /\ last_page = None
    /\ result = None
    /\ handler = "none"
    /\ session = [access_token |-> None]
    /\ items_at_call = <<>>
    /\ overwrite_text = <<>>
    /\ skip_confirmation = FALSE
    /\ confirmed_to_delete = FALSE
    /\ index = 0
    /\ success_count = 0
    /\ fail_count = 0
    /\ prompts = 0
    /\ stdin_reads = <<>>
    /\ api_requests = <<>>
    /\ output = <<>>
    /\ action_result = None
    /\ debug_mode = FALSE
    /\ stderr = <<>>
    /\ failures = <<>>
    /\ csv_path = <<>>
    /\ previous_export = None
    /\ util_input = None
    /\ util_output = None

(***************************************************************************)
(* fetch_user_items                                                        *)
(***************************************************************************)
keep_post(post) == post_filter(post, crit)

(* all_fetched_comments.extend(children)                                   *)
(* Mutant: the page is put in front of what was accumulated.               *)
extend_in_front(accumulated, children) == children \o accumulated

extend(accumulated, children) == accumulated \o children
keep_comment(comment) == comment_filter(comment, crit)

(* Mutant: a failed page request ends the loop and what was accumulated is *)
(* filtered and returned.                                                  *)
page_failure_result_partial(e) ==
    Ok(all_items \o normalize_comments(
                           SelectSeq(all_fetched_comments, keep_comment)))

(* A failed page request ends the call: return Err(e).                     *)
page_failure_result(e) == Err(e)

(* if flag { eprintln!(line) }                                             *)
eprintln_if(flag, stream, line) == IF flag THEN Append(stream, line) ELSE stream

(* The line the routine writes for a failed post listing request.          *)
post_failure_line(kind) ==
    IF kind = "json_err"
    THEN "Failed to parse submitted posts JSON"
    ELSE "Failed to fetch your submitted posts"

(* The line the routine writes for a failed comment page request.          *)
page_failure_line(kind) ==
    IF kind = "json_err"
    THEN "Failed to parse comments JSON on page"
    ELSE "Error fetching page of comments"

(* Where control goes from the entry: `if do_fetch_posts` comes first,     *)
(* `if do_fetch_comments` second, and Ok(all_items) ends the routine.      *)
(* Mutant: the comment branch comes first and ends the routine.            *)
first_request_comments_first(p, q) ==
    IF q THEN "f_comments" ELSE IF p THEN "f_posts" ELSE "returned"

first_request(p, q) ==
    IF p THEN "f_posts" ELSE IF q THEN "f_comments" ELSE "returned"

(* The call: arguments are bound, all_items is empty, and control reaches  *)
(* the first request that the flags enable.                                *)
fetch_user_items_call(Criteria, Flags, Debug) ==
    /\ pc = "start"
    /\ \E d \in Debug : debug_mode' = d
    /\ stderr' = <<>>
    /\ failures' = <<>>
    /\ \E c \in Criteria, flags \in Flags :
        LET p == flags[1]
            q == flags[2]
        IN
        /\ crit' = c
        /\ do_fetch_posts' = p
        /\ do_fetch_comments' = q
        /\ pc' = first_request(p, q)
        /\ result' = IF p \/ q THEN None ELSE Ok(<<>>)
    /\ UNCHANGED <<item_type, raw_posts, post_requests, post_after, all_items,
                   all_fetched_comments, after_token, page_count, requests,
                   last_page>>
    /\ UNCHANGED <<action_vars, export_vars, util_vars>>

(* The request for the post listing and the handling of its response.      *)
fetch_posts(Responses) ==
    /\ pc = "f_posts"
    /\ post_requests' = post_requests + 1
    /\ \E resp \in Responses :
        /\ post_after' = resp.after
        /\ IF resp.kind = "ok"
           THEN /\ raw_posts' = resp.children
                /\ all_items' = all_items
                       \o normalize_posts(SelectSeq(resp.children, keep_post))
                /\ pc' = IF do_fetch_comments THEN "f_comments" ELSE "returned"
                /\ result' = IF do_fetch_comments THEN None ELSE Ok(all_items')
           ELSE /\ pc' = "returned"
                /\ result' = Err(resp.kind)
                /\ UNCHANGED <<raw_posts, all_items>>
        /\ failures' = IF resp.kind = "ok" THEN failures
                                           ELSE Append(failures, "posts")
        /\ stderr' = IF resp.kind = "ok"
                      THEN stderr
                      ELSE eprintln_if(debug_mode, stderr,
                                       post_failure_line(resp.kind))
    /\ UNCHANGED <<do_fetch_posts, do_fetch_comments, crit, item_type,
                   all_fetched_comments, after_token, page_count, requests,
                   last_page>>
    /\ UNCHANGED <<action_vars, debug_mode, export_vars, util_vars>>

(* One iteration of the comment loop: the page request with the current    *)
(* cursor and the handling of its response; on a break, the filtering and  *)
(* normalisation of the accumulated comments and the return.               *)
fetch_comment_page(Responses) ==
    /\ pc = "f_comments"
    /\ page_count < MaxPages
    /\ \E resp \in Responses :
        /\ page_count' = page_count + 1
        /\ requests' = Append(requests, after_token)
        /\ last_page' = Some([kind |-> resp.kind, n |-> Len(resp.children),
                              children |-> resp.children, after |-> resp.after])
        /\ IF resp.kind = "ok"
           THEN /\ all_fetched_comments' = extend(all_fetched_comments,
                                                  resp.children)
                /\ after_token' = resp.after
                /\ IF loop_breaks(after_token', Len(resp.children), page_count')
                   THEN /\ all_items' =
                              IF all_fetched_comments' = <<>>
                              THEN all_items
                              ELSE all_items
                                     \o normalize_comments(
                                               SelectSeq(all_fetched_comments',
                                                         keep_comment))
                        /\ pc' = "returned"
                        /\ result' = Ok(all_items')
                   ELSE /\ pc' = "f_comments"
                        /\ UNCHANGED <<all_items, result>>
           ELSE /\ pc' = "returned"
                /\ result' = page_failure_result(resp.kind)
                /\ UNCHANGED <<all_fetched_comments, after_token, all_items>>
        /\ failures' = IF resp.kind = "ok" THEN failures
                                           ELSE Append(failures, "comments")
        /\ stderr' = IF resp.kind = "ok"
                      THEN stderr
                      ELSE eprintln_if(debug_mode, stderr,
                                       page_failure_line(resp.kind))
    /\ UNCHANGED <<do_fetch_posts, do_fetch_comments, crit, item_type, raw_posts,
                   post_requests, post_after>>
    /\ UNCHANGED <<action_vars, debug_mode, export_vars, util_vars>>

(***************************************************************************)
(* main: its inline retrieval and the sort                                 *)
(***************************************************************************)
main_keep_post(post) == main_post_filter(post, crit)
main_keep_comment(comment) == main_comment_filter(comment, crit)

wants(t, plural) ==
    IF t = None
    THEN TRUE
    ELSE IF eq_ignore_ascii_case(t[1], plural)
         THEN TRUE
         ELSE eq_ignore_ascii_case(t[1], <<"b", "o", "t", "h">>)

(* What main writes to the error stream before the retrieval, by the way   *)
(* its start went: the two expect() panics always write their message, the *)
(* login and account failures write theirs in debug mode only.             *)
startup_stderr(startup, debug) ==
    CASE startup = "config_missing" ->
             <<"Failed to read config.toml. Make sure it exists in the project root.">>
      [] startup = "config_invalid" ->
             <<"Failed to parse config.toml. Check its format.">>
      [] startup = "login_err" ->
             eprintln_if(debug, <<>>, "Failed to log in to Reddit")
      [] startup = "me_err" ->
             eprintln_if(debug, <<>>, "Failed to fetch your user data")
      [] OTHER -> <<>>

(* Where main is after its start: a panic, a plain return, or on its way   *)
(* to the first request.                                                   *)
startup_pc(startup, p, q) ==
    CASE startup \in {"config_missing", "config_invalid"} -> "m_panicked"
      [] startup \in {"login_err", "me_err"} -> "m_returned"
      [] OTHER -> IF p THEN "m_posts" ELSE IF q THEN "m_comments" ELSE "m_sorted"

(* main up to the first request: the options are parsed, config.toml is    *)
(* read from the working directory and parsed, the login is made, the      *)
(* account is fetched, and the two flags are derived from cli.item_type.   *)
main_start(Criteria, Debug, Starts) ==
    /\ pc = "start"
    /\ \E c \in Criteria, t \in ItemTypes, d \in Debug, startup \in Starts :
        LET p == wants(t, <<"p", "o", "s", "t", "s">>)
            q == wants(t, <<"c", "o", "m", "m", "e", "n", "t", "s">>)
        IN  /\ crit' = c
            /\ item_type' = t
            /\ debug_mode' = d
            /\ do_fetch_posts' = (startup = "ok" /\ p)
            /\ do_fetch_comments' = (startup = "ok" /\ q)
            /\ session' = IF startup \in {"ok", "me_err"}
                          THEN [access_token |-> Some(<<"t">>)]
                          ELSE session
            /\ failures' = IF startup = "ok" THEN <<>> ELSE <<startup>>
            /\ stderr' = startup_stderr(startup, d)
            /\ pc' = startup_pc(startup, p, q)
    /\ UNCHANGED <<raw_posts, post_requests, post_after, all_items,
                   all_fetched_comments, after_token, page_count, requests,
                   last_page, result>>
    /\ UNCHANGED <<handler, items_at_call, overwrite_text, skip_confirmation,
                   confirmed_to_delete, index, success_count, fail_count,
                   prompts, stdin_reads, api_requests, output, action_result>>
    /\ UNCHANGED <<export_vars, util_vars>>

main_fetch_posts(Responses) ==
    /\ pc = "m_posts"
    /\ post_requests' = post_requests + 1
    /\ \E resp \in Responses :
        LET collected ==
                IF resp.kind = "ok"
                THEN all_items
                       \o normalize_posts(SelectSeq(resp.children, main_keep_post))
                ELSE all_items
        IN  /\ post_after' = resp.after
            /\ raw_posts' = IF resp.kind = "ok" THEN resp.children ELSE raw_posts
            /\ all_items' = IF do_fetch_comments
                            THEN collected
                            ELSE sort_by_created_desc(collected)
            /\ pc' = IF do_fetch_comments THEN "m_comments" ELSE "m_sorted"
            /\ failures' = IF resp.kind = "ok" THEN failures
                                               ELSE Append(failures, "posts")
            /\ stderr' = IF resp.kind = "ok"
                          THEN stderr
                          ELSE eprintln_if(debug_mode, stderr,
                                           "Failed to fetch your submitted posts")
    /\ UNCHANGED <<do_fetch_posts, do_fetch_comments, crit, item_type,
                   all_fetched_comments, after_token, page_count, requests,
                   last_page, result>>
    /\ UNCHANGED <<action_vars, debug_mode, export_vars, util_vars>>

main_comment_page(Responses) ==
    /\ pc = "m_comments"
    /\ page_count < MaxPages
    /\ \E resp \in Responses :
        /\ page_count' = page_count + 1
        /\ requests' = Append(requests, after_token)
        /\ last_page' = Some([kind |-> resp.kind, n |-> Len(resp.children),
                              children |-> resp.children, after |-> resp.after])
        /\ all_fetched_comments' =
              IF resp.kind = "ok"
              THEN extend(all_fetched_comments, resp.children)
              ELSE all_fetched_comments
        /\ failures' = IF resp.kind = "ok" THEN failures
                                           ELSE Append(failures, "comments")
        /\ stderr' = IF resp.kind = "ok"
                      THEN stderr
                      ELSE eprintln_if(debug_mode, stderr,
                                       "Error fetching page of comments")
        /\ after_token' = IF resp.kind = "ok" THEN resp.after ELSE after_token
        /\ IF resp.kind = "ok"
              /\ ~loop_breaks(after_token', Len(resp.children), page_count')
           THEN /\ pc' = "m_comments"
                /\ UNCHANGED all_items
           ELSE /\ pc' = "m_sorted"
                /\ all_items' =
                      sort_by_created_desc(
                          IF all_fetched_comments' = <<>>
                          THEN all_items
                          ELSE all_items
                                 \o main_normalize_comments(
                                           SelectSeq(all_fetched_comments',
                                                     main_keep_comment)))
    /\ UNCHANGED <<do_fetch_posts, do_fetch_comments, crit, item_type, raw_posts,
                   post_requests, post_after, result>>
    /\ UNCHANGED <<action_vars, debug_mode, export_vars, util_vars>>

(***************************************************************************)
(* actions.rs: the batch action routines.  The caller hands them the item  *)
(* sequence that fetch_user_items returned; overwrite may precede a        *)
(* deletion or an export.                                                  *)
(***************************************************************************)
OkValue(v) == Some([tag |-> "Ok", value |-> v])
ErrValue(e) == Some([tag |-> "Err", error |-> e])

caller_holds_items ==
    \/ pc = "returned" /\ result # None /\ result[1].tag = "Ok"
    \/ pc = "acted"

(* Entry of a routine of actions.rs: its locals are fresh, nothing was     *)
(* issued or written yet, and only a CSV export names a file.              *)
enter_action(h) ==
    /\ stderr' = <<>>
    /\ failures' = <<>>
    /\ IF h = "csv"
       THEN TRUE
       ELSE /\ csv_path' = <<>>
            /\ previous_export' = None

(* Entry of a routine: its locals are fresh and nothing was issued yet.    *)
enter(h) ==
    /\ handler' = h
    /\ items_at_call' = all_items
    /\ index' = 0
    /\ success_count' = 0
    /\ fail_count' = 0
    /\ stdin_reads' = <<>>
    /\ api_requests' = <<>>

(* The id a request for the i-th item carries: &item.id / item.id.as_str() *)
(* Mutant: every request carries the id of the first item.                 *)
request_id_of_first(items, i) == items[1].id

request_id(items, i) == items[i].id

(* item.content = overwrite_text.to_string() in the Ok arm only.           *)
(* Mutant: the content is replaced before the outcome is known.            *)
content_after_edit_always(item, text, success) == [item EXCEPT !.content = text]

(* Mutant: the title is replaced along with the content.                   *)
content_after_edit_and_title(item, text, success) ==
    IF success THEN [item EXCEPT !.content = text, !.title = text] ELSE item

content_after_edit(item, text, success) ==
    IF success THEN [item EXCEPT !.content = text] ELSE item

handle_overwrite_action_call(Texts, Sessions) ==
    /\ caller_holds_items
    /\ \E text \in Texts, me \in Sessions :
        /\ overwrite_text' = text
        /\ session' = me
    /\ enter("overwrite")
    /\ enter_action("overwrite")
    /\ prompts' = 0
    /\ output' = <<>>
    /\ pc' = IF all_items = <<>> THEN "acted" ELSE "o_loop"
    /\ action_result' = IF all_items = <<>> THEN OkValue(<<>>) ELSE None
    /\ UNCHANGED <<all_items, retrieval_vars, skip_confirmation,
                   confirmed_to_delete, debug_mode, util_vars>>

(* One iteration of `for item in items.iter_mut()`: the edit request for   *)
(* the item and the handling of its result; Ok(()) after the last item.    *)
overwrite_item(Outcomes) ==
    /\ pc = "o_loop"
    /\ index < Len(all_items)
    /\ \E outcome \in Outcomes :
        LET i == index + 1
            success == outcome = "ok"
        IN  /\ api_requests' =
                  Append(api_requests,
                         [op |-> "edit", id |-> request_id(all_items, i),
                          text |-> overwrite_text, outcome |-> outcome])
            /\ all_items' =
                  [all_items EXCEPT
                      ![i] = content_after_edit(all_items[i], overwrite_text, success)]
            /\ success_count' = IF success THEN success_count + 1 ELSE success_count
            /\ fail_count' = IF success THEN fail_count ELSE fail_count + 1
            /\ index' = i
            /\ pc' = IF i = Len(all_items) THEN "acted" ELSE "o_loop"
            /\ action_result' = IF i = Len(all_items) THEN OkValue(<<>>) ELSE None
            /\ failures' = IF success THEN failures ELSE Append(failures, "edit")
            /\ stderr' = IF success
                          THEN stderr
                          ELSE eprintln_if(debug_mode,
                                           Append(stderr, "Failed to overwrite"),
                                           "Debug details for RouxError")
    /\ UNCHANGED <<retrieval_vars, handler, session, items_at_call,
                   overwrite_text, skip_confirmation, confirmed_to_delete,
                   prompts, stdin_reads, output, debug_mode, export_vars,
                   util_vars>>

(* if items_to_delete.is_empty() { return Ok(0) }                          *)
(* Mutant: the early return is missing.                                    *)
delete_short_circuits_never(items_to_delete) == FALSE

delete_short_circuits(items_to_delete) == items_to_delete = <<>>

(* confirmation_input.trim().to_lowercase() == "yes"                       *)
(* Mutant: any answer that begins with y confirms.                         *)
confirmation_is_any_y(confirmation_input) ==
    /\ to_lowercase(trim(confirmation_input)) # <<>>
    /\ to_lowercase(trim(confirmation_input))[1] = "y"

confirmation_is_yes(confirmation_input) ==
    to_lowercase(trim(confirmation_input)) = <<"y", "e", "s">>

(* What a delete request that did not delete writes to the error stream.   *)
delete_failure_lines(outcome, debug) ==
    IF outcome = "send_err"
    THEN eprintln_if(debug, <<"Error sending delete request for item">>,
                     "Debug details for reqwest error")
    ELSE <<"Failed to delete item - API Error Status">>

(* response.status().is_success() of an answered delete request.           *)
(* Mutant: every answered request counts as deleted.                       *)
delete_succeeded_if_answered(outcome) == outcome # "send_err"

delete_succeeded(outcome) == outcome = "success"

(* The call up to the first suspension: the empty check, the prompt and    *)
(* its flush, or straight into the loop when skip_confirmation is set.     *)
handle_delete_action_call(Flags, Sessions, Flushes) ==
    /\ caller_holds_items
    /\ \E skip \in Flags, me \in Sessions, flushed \in Flushes :
        /\ skip_confirmation' = skip
        /\ session' = me
        /\ IF delete_short_circuits(all_items)
           THEN /\ pc' = "acted"
                /\ action_result' = OkValue(0)
                /\ prompts' = 0
                /\ confirmed_to_delete' = FALSE
           ELSE IF skip
           THEN /\ pc' = IF all_items = <<>> THEN "acted" ELSE "d_loop"
                /\ action_result' = IF all_items = <<>> THEN OkValue(0) ELSE None
                /\ prompts' = 0
                /\ confirmed_to_delete' = TRUE
           ELSE /\ prompts' = 1
                /\ confirmed_to_delete' = FALSE
                /\ pc' = IF flushed THEN "d_read" ELSE "acted"
                /\ action_result' = IF flushed THEN None ELSE ErrValue("flush")
    /\ enter("delete")
    /\ enter_action("delete")
    /\ output' = <<>>
    /\ UNCHANGED <<all_items, retrieval_vars, overwrite_text, debug_mode,
                   util_vars>>

(* io::stdin().read_line(..)? and the comparison of the answer.            *)
read_confirmation(Reads) ==
    /\ pc = "d_read"
    /\ \E read \in Reads :
        IF read.kind = "io_err"
        THEN /\ pc' = "acted"
             /\ action_result' = ErrValue("read_line")
             /\ UNCHANGED <<stdin_reads, confirmed_to_delete>>
        ELSE /\ stdin_reads' = Append(stdin_reads, read.line)
             /\ confirmed_to_delete' = confirmation_is_yes(read.line)
             /\ pc' = IF confirmed_to_delete' /\ all_items # <<>>
                      THEN "d_loop"
                      ELSE "acted"
             /\ action_result' = IF confirmed_to_delete' /\ all_items # <<>>
                                 THEN None
                                 ELSE OkValue(0)
    /\ UNCHANGED <<all_items, retrieval_vars, handler, session, items_at_call,
                   overwrite_text, skip_confirmation, index, success_count,
                   fail_count, prompts, api_requests, output, report_vars,
                   export_vars, util_vars>>

(* reddit.config.access_token.as_deref().ok_or_else(..)? at the head of    *)
(* every iteration, `done` items into the loop.                            *)
(* Mutant: the token is looked at only from the second item on.            *)
token_is_none_after_first(me, done) == me.access_token = None /\ done > 0

token_is_none(me, done) == me.access_token = None

(* One iteration of the deletion loop: the token check, the delete request *)
(* for the item and the handling of its response; Ok(deleted_count) after  *)
(* the last item.                                                          *)
delete_item(Outcomes) ==
    /\ pc = "d_loop"
    /\ index < Len(all_items)
    /\ IF token_is_none(session, index)
       THEN /\ pc' = "acted"
            /\ action_result' = ErrValue("token")
            /\ UNCHANGED <<api_requests, success_count, fail_count, index,
                           stderr, failures>>
       ELSE \E outcome \in Outcomes :
            LET i == index + 1
                deleted == delete_succeeded(outcome)
            IN  /\ api_requests' =
                      Append(api_requests,
                             [op |-> "del", id |-> request_id(all_items, i),
                              text |-> <<>>, outcome |-> outcome])
                /\ success_count' = IF deleted THEN success_count + 1
                                               ELSE success_count
                /\ fail_count' = IF deleted THEN fail_count ELSE fail_count + 1
                /\ index' = i
                /\ pc' = IF i = Len(all_items) THEN "acted" ELSE "d_loop"
                /\ action_result' = IF i = Len(all_items)
                                    THEN OkValue(success_count')
                                    ELSE None
                /\ failures' = IF deleted THEN failures
                                          ELSE Append(failures, "delete")
                /\ stderr' = IF deleted
                              THEN stderr
                              ELSE stderr \o delete_failure_lines(outcome,
                                                                  debug_mode)
    /\ UNCHANGED <<all_items, retrieval_vars, handler, session, items_at_call,
                   overwrite_text, skip_confirmation, confirmed_to_delete,
                   prompts, stdin_reads, output, debug_mode, export_vars,
                   util_vars>>

(***************************************************************************)
(* The two renderings of the item sequence                                 *)
(***************************************************************************)
RECURSIVE replace(_, _, _)
replace(s, from, to) ==
    IF Len(s) < Len(from)
    THEN s
    ELSE IF SubSeq(s, 1, Len(from)) = from
         THEN to \o replace(SubSeq(s, Len(from) + 1, Len(s)), from, to)
         ELSE <<Head(s)>> \o replace(Tail(s), from, to)

(* Mutant: the CR LF pair is not replaced as a pair.                       *)
escape_csv_field_each_break(field) ==
    replace(replace(replace(field, <<"\n">>, <<"\\", "n">>),
                    <<"\r">>, <<"\\", "n">>),
            <<"\"">>, <<"\"", "\"">>)

escape_csv_field(field) ==
    replace(replace(replace(replace(field, <<"\r", "\n">>, <<"\\", "n">>),
                            <<"\n">>, <<"\\", "n">>),
                    <<"\r">>, <<"\\", "n">>),
            <<"\"">>, <<"\"", "\"">>)

RECURSIVE decimal(_)
decimal(n) ==
    LET digit == <<"0", "1", "2", "3", "4", "5", "6", "7", "8", "9">>
    IN  IF n < 10
        THEN <<digit[n + 1]>>
        ELSE decimal(n \div 10) \o <<digit[(n % 10) + 1]>>

to_string(n) == IF n < 0 THEN <<"-">> \o decimal(-n) ELSE decimal(n)

(* Mutant: the prefix is written for an empty subreddit too.               *)
subreddit_prefix_always(item) == <<"r", "/">>

subreddit_prefix(item) == IF item.subreddit = <<>> THEN <<>> ELSE <<"r", "/">>

site_origin ==
    <<"h", "t", "t", "p", "s", ":", "/", "/", "r", "e", "d", "d", "i", "t",
      ".", "c", "o", "m">>

csv_header ==
    <<<<"T", "y", "p", "e">>,
      <<"S", "u", "b", "r", "e", "d", "d", "i", "t">>,
      <<"T", "i", "t", "l", "e">>,
      <<"C", "o", "n", "t", "e", "n", "t">>,
      <<"U", "p", "v", "o", "t", "e", "s">>,
      <<"N", "u", "m", "C", "o", "m", "m", "e", "n", "t", "s">>,
      <<"P", "e", "r", "m", "a", "l", "i", "n", "k">>,
      <<"T", "i", "m", "e", "s", "t", "a", "m", "p", "U", "T", "C">>>>

csv_record(item) ==
    <<item.item_type,
      subreddit_prefix(item) \o item.subreddit,
      item.title,
      item.content,
      to_string(item.upvotes),
      to_string(item.num_comments),
      site_origin \o item.permalink,
      to_string(item.created_utc)>>

csv_records(items) == <<csv_header>> \o [i \in 1..Len(items) |-> csv_record(items[i])]

(* The records a complete export hands to the writer, as a function of the *)
(* routine's three arguments.                                              *)
(* Mutant: the file names itself in the last field of its header.          *)
exported_records_naming_file(items, file_path, debug) ==
    <<csv_header \o <<file_path>>>> \o Tail(csv_records(items))

exported_records(items, file_path, debug) == csv_records(items)

(* The file is created (an existing one is truncated), the header and one  *)
(* record per item are written and the writer is flushed; an I/O failure   *)
(* at any of these ends the call with an error, leaving what had reached   *)
(* the file.                                                               *)
handle_csv_export(Outcomes, Paths) ==
    /\ caller_holds_items
    /\ \E outcome \in Outcomes, written \in 0..(Len(all_items) + 1),
          file_path \in Paths :
        /\ outcome = "ok" => written = Len(all_items) + 1
        /\ outcome = "create_err" => written = 0
        /\ csv_path' = file_path
        /\ output' = SubSeq(exported_records(all_items, file_path, debug_mode),
                            1, written)
        /\ action_result' = IF outcome = "ok" THEN OkValue(<<>>) ELSE ErrValue(outcome)
    /\ previous_export' =
          IF handler = "csv" /\ action_result = OkValue(<<>>)
          THEN Some([file_path |-> csv_path, items |-> items_at_call,
                     contents |-> output])
          ELSE None
    /\ enter("csv")
    /\ enter_action("csv")
    /\ prompts' = 0
    /\ pc' = "acted"
    /\ UNCHANGED <<all_items, retrieval_vars, session, overwrite_text,
                   skip_confirmation, confirmed_to_delete, debug_mode,
                   util_vars>>

console_header ==
    <<"T", "y", "p", "e", ",", "S", "u", "b", "r", "e", "d", "d", "i", "t",
      ",", "T", "i", "t", "l", "e", ",", "C", "o", "n", "t", "e", "n", "t",
      ",", "U", "p", "v", "o", "t", "e", "s", ",", "N", "u", "m", "C", "o",
      "m", "m", "e", "n", "t", "s", ",", "P", "e", "r", "m", "a", "l", "i",
      "n", "k", ",", "T", "i", "m", "e", "s", "t", "a", "m", "p", "U", "T",
      "C">>

quoted(field) == <<"\"">> \o field \o <<"\"">>

console_line(item) ==
    quoted(item.item_type) \o <<",">>
      \o quoted(subreddit_prefix(item) \o item.subreddit) \o <<",">>
      \o quoted(escape_csv_field(item.title)) \o <<",">>
      \o quoted(escape_csv_field(item.content)) \o <<",">>
      \o to_string(item.upvotes) \o <<",">>
      \o to_string(item.num_comments) \o <<",">>
      \o quoted(site_origin \o item.permalink) \o <<",">>
      \o to_string(item.created_utc)

console_lines(items) ==
    IF items = <<>>
    THEN <<>>
    ELSE <<console_header>> \o [i \in 1..Len(items) |-> console_line(items[i])]

no_items_notice ==
    <<"N", "o", " ", "i", "t", "e", "m", "s", " ", "t", "o", " ", "o", "u",
      "t", "p", "u", "t", " ", "a", "f", "t", "e", "r", " ", "f", "i", "l",
      "t", "e", "r", "i", "n", "g", ".">>

(* Everything the routine prints: the notice for an empty sequence in      *)
(* debug mode, nothing for an empty sequence otherwise, else the header    *)
(* and the item lines.                                                     *)
(* Mutant: the header is printed for an empty sequence too.                *)
printed_lines_with_header(items, debug) ==
    <<console_header>> \o [i \in 1..Len(items) |-> console_line(items[i])]

printed_lines(items, debug) ==
    IF items = <<>>
    THEN IF debug THEN <<no_items_notice>> ELSE <<>>
    ELSE console_lines(items)

handle_print_to_console ==
    /\ caller_holds_items
    /\ output' = printed_lines(all_items, debug_mode)
    /\ action_result' = OkValue(<<>>)
    /\ enter("print")
    /\ enter_action("print")
    /\ prompts' = 0
    /\ pc' = "acted"
    /\ UNCHANGED <<all_items, retrieval_vars, session, overwrite_text,
                   skip_confirmation, confirmed_to_delete, debug_mode,
                   util_vars>>

(***************************************************************************)
(* main: its own deletion loop and its own printing after the sort         *)
(***************************************************************************)
main_delete_start ==
    /\ pc = "m_sorted"
    /\ enter("main_delete")
    /\ prompts' = 0
    /\ output' = <<>>
    /\ pc' = IF all_items = <<>> THEN "m_done" ELSE "m_prompt"
    /\ UNCHANGED <<all_items, retrieval_vars, session, overwrite_text,
                   skip_confirmation, confirmed_to_delete, action_result,
                   report_vars, export_vars, util_vars>>

(* The answer as the match sees it: input.trim().to_lowercase()            *)
main_answer(input) == to_lowercase(trim(input))

(* The arm of the match an answer selects.                                 *)
(* Mutant: an answer that is none of the three skips the item.             *)
main_arm_unknown_skips(answer) ==
    CASE answer = <<"y">> -> "proceed"
      [] answer = <<"a">> -> "abort"
      [] OTHER -> "skip"

main_arm(answer) ==
    CASE answer = <<"y">> -> "proceed"
      [] answer = <<"n">> -> "skip"
      [] answer = <<"a">> -> "abort"
      [] OTHER -> "invalid"

(* One pass of the inner prompt loop for the current item: the prompt, the *)
(* line read and the arm of the match it selects (y: the delete request    *)
(* and its outcome, n: skip, a: abort, anything else: ask again).          *)
main_delete_prompt(Reads, Outcomes) ==
    /\ pc = "m_prompt"
    /\ index < Len(all_items)
    /\ Len(stdin_reads) < MaxReads
    /\ prompts' = prompts + 1
    /\ \E read \in Reads, outcome \in Outcomes :
        LET i == index + 1
            answer == main_answer(read.line)
            arm == main_arm(answer)
            after_item == IF i = Len(all_items) THEN "m_done" ELSE "m_prompt"
        IN
        IF read.kind = "io_err"
        THEN /\ pc' = "m_done"
             /\ action_result' = ErrValue("panic")
             /\ stderr' = Append(stderr, "Failed to read line")
             /\ UNCHANGED <<stdin_reads, api_requests, success_count,
                            fail_count, index, failures>>
        ELSE /\ stdin_reads' = Append(stdin_reads, read.line)
             /\ UNCHANGED action_result
             /\ failures' = IF arm = "proceed" /\ ~delete_succeeded(outcome)
                             THEN Append(failures, "delete")
                             ELSE failures
             /\ stderr' = IF arm = "proceed" /\ ~delete_succeeded(outcome)
                           THEN stderr \o delete_failure_lines(outcome,
                                                               debug_mode)
                           ELSE stderr
             /\ CASE arm = "proceed" ->
                       /\ api_requests' =
                             Append(api_requests,
                                    [op |-> "del", id |-> request_id(all_items, i),
                                     text |-> <<>>, outcome |-> outcome])
                       /\ success_count' = IF delete_succeeded(outcome)
                                           THEN success_count + 1
                                           ELSE success_count
                       /\ index' = i
                       /\ pc' = after_item
                       /\ UNCHANGED fail_count
                  [] arm = "skip" ->
                       /\ fail_count' = fail_count + 1
                       /\ index' = i
                       /\ pc' = after_item
                       /\ UNCHANGED <<api_requests, success_count>>
                  [] arm = "abort" ->
                       /\ pc' = "m_done"
                       /\ UNCHANGED <<api_requests, success_count, fail_count, index>>
                  [] OTHER ->
                       /\ pc' = "m_prompt"
                       /\ UNCHANGED <<api_requests, success_count, fail_count, index>>
    /\ UNCHANGED <<all_items, retrieval_vars, handler, session, items_at_call,
                   overwrite_text, skip_confirmation, confirmed_to_delete, output,
                   debug_mode, export_vars, util_vars>>

finished_printing_notice ==
    <<"F", "i", "n", "i", "s", "h", "e", "d", " ", "p", "r", "o", "c", "e",
      "s", "s", "i", "n", "g", " ", "a", "n", "d", " ", "p", "r", "i", "n",
      "t", "i", "n", "g", " ", "d", "a", "t", "a", ".">>

application_finished_notice ==
    <<"A", "p", "p", "l", "i", "c", "a", "t", "i", "o", "n", " ", "f", "i",
      "n", "i", "s", "h", "e", "d", ".">>

(* The lines main prints from its printing branch to its end: the same     *)
(* lines as the routine of actions.rs, and two closing lines in debug mode.*)
main_printed_lines(items, debug) ==
    printed_lines(items, debug)
      \o (IF debug
          THEN <<finished_printing_notice, application_finished_notice>>
          ELSE <<>>)

main_print ==
    /\ pc = "m_sorted"
    /\ enter("main_print")
    /\ prompts' = 0
    /\ output' = main_printed_lines(all_items, debug_mode)
    /\ pc' = "m_done"
    /\ UNCHANGED <<all_items, retrieval_vars, session, overwrite_text,
                   skip_confirmation, confirmed_to_delete, action_result,
                   report_vars, export_vars, util_vars>>

(***************************************************************************)
(* The pipeline specification                                              *)
(***************************************************************************)
CallFetch == fetch_user_items_call(PipelineCriteria, BOOLEAN \X BOOLEAN, BOOLEAN)
FetchPosts == fetch_posts(PostResponses)
FetchCommentPage == fetch_comment_page(CommentResponses)
MainStart == main_start(PipelineCriteria, BOOLEAN, Startups)
MainFetchPosts == main_fetch_posts(PostResponses)
MainCommentPage == main_comment_page(CommentResponses)

Next ==
    \/ CallFetch
    \/ FetchPosts
    \/ FetchCommentPage
    \/ MainStart
    \/ MainFetchPosts
    \/ MainCommentPage

Spec == Init /\ [][Next]_vars

(***************************************************************************)
(* Properties of the pipeline                                              *)
(***************************************************************************)
InCommentLoop == pc \in {"f_comments", "m_comments"}
PageAnswered == last_page # None /\ last_page[1].kind = "ok"
PageFailed == last_page # None /\ last_page[1].kind # "ok"
ReturnedOk == pc = "returned" /\ result # None /\ result[1].tag = "Ok"
ReturnedErr == pc = "returned" /\ result # None /\ result[1].tag = "Err"

(* C1: after every answered comment page the loop has stopped exactly when *)
(* the returned cursor is absent or the page was empty and was not the     *)
(* first one; an empty first page with a cursor keeps the loop running.    *)
C1_LoopStopsExactly ==
    PageAnswered =>
        /\ ~InCommentLoop <=>
              \/ last_page[1].after = None
              \/ (last_page[1].n = 0 /\ page_count > 1)
        /\ (page_count = 1 /\ last_page[1].n = 0 /\ last_page[1].after # None)
              => InCommentLoop

(* An empty first page did not stop the loop, a later empty page with a    *)
(* cursor did.                                                             *)
C1_Witness ==
    /\ pc = "returned"
    /\ PageAnswered
    /\ page_count >= 2
    /\ all_fetched_comments = <<>>
    /\ last_page[1].after # None

(* C2: when a comment page request of fetch_user_items fails (transport or *)
(* JSON decoding, on any page), the call returns an error and the caller   *)
(* receives no item: none of the comments accumulated so far.              *)
C2_FailureReturnsNoComments ==
    (pc = "returned" /\ PageFailed) =>
        /\ ReturnedErr
        /\ result[1].items = <<>>

(* A page failed after earlier pages had delivered comments.               *)
C2_Witness ==
    /\ ReturnedErr
    /\ PageFailed
    /\ page_count >= 2
    /\ all_fetched_comments # <<>>

(* C3: when a comment page request of fetch_user_items fails after posts   *)
(* were collected, the caller still receives the collected posts.          *)
C3_PostsSurviveCommentFailure ==
    (pc = "returned" /\ PageFailed) =>
        \A i \in 1..Len(all_items) :
            /\ result[1].tag = "Ok"
            /\ any(result[1].items, all_items[i])

(* C10: the sequence main hands to its actions is the concatenation of the *)
(* normalised posts and comments, ordered by created_utc newest first,     *)
(* items of equal created_utc in retrieval order.                          *)
Retrieved ==
    normalize_posts(SelectSeq(raw_posts, main_keep_post))
        \o main_normalize_comments(
                  SelectSeq(all_fetched_comments, main_keep_comment))

CreatedKeys(items) == {items[i].created_utc : i \in 1..Len(items)}

WithKey(items, k) ==
    LET has_key(x) == x.created_utc = k IN SelectSeq(items, has_key)

C10_SortedNewestFirstStable ==
    pc = "m_sorted" =>
        /\ Len(all_items) = Len(Retrieved)
        /\ \A i \in 1..(Len(all_items) - 1) :
              all_items[i].created_utc >= all_items[i + 1].created_utc
        /\ \A k \in CreatedKeys(Retrieved) \cup CreatedKeys(all_items) :
              WithKey(all_items, k) = WithKey(Retrieved, k)

(* The sort moved something, and two different items share a timestamp.    *)
C10_Witness ==
    /\ pc = "m_sorted"
    /\ all_items # Retrieved
    /\ \E i \in 1..(Len(all_items) - 1) :
          /\ all_items[i].created_utc = all_items[i + 1].created_utc
          /\ all_items[i] # all_items[i + 1]

(***************************************************************************)
(* The filter specification: fetch_user_items called for one source, the   *)
(* remote answering with one item, over every combination of configured    *)
(* criteria and over every bound around the items' values.                 *)
(***************************************************************************)
Subreddits == {<<>>, <<"a">>, <<"A">>, <<"b">>, <<"a", "b">>}
Titles == {<<>>, <<"A", "b">>, <<"b">>}
Scores == {0, 2}
Timestamps == {0, 2}

FilterPosts ==
    [name : {<<"p", "1">>}, subreddit : Subreddits, title : {<<"A", "b">>},
     selftext : {<<"b">>}, ups : Scores, num_comments : {1},
     permalink : {<<"/", "p", "1">>}, created_utc : Timestamps]

FilterComments ==
    {[c EXCEPT !.ups = c.score] : c \in
        [name : {Some(<<"c", "1">>)},
         subreddit : {None} \cup {Some(sr) : sr \in Subreddits},
         link_title : {None} \cup {Some(t) : t \in Titles},
         body : {Some(<<"b">>)},
         score : {None} \cup {Some(n) : n \in Scores},
         ups : {None},
         permalink : {Some(<<"/", "c", "1">>)},
         created_utc : {None} \cup {Some(t) : t \in Timestamps}]}

OnePostResponses(Posts) ==
    [kind : {"ok"}, children : {<<post>> : post \in Posts}, after : {None}]

OneCommentResponses(Comments) ==
    [kind : {"ok"}, children : {<<comment>> : comment \in Comments}, after : {None}]

ComboCriteria ==
    [filter_subreddit : {None, Some(<<"a">>)},
     exclude_subreddit : {None, Some(<<"b">>)},
     filter_score : {None, Some(1)},
     filter_max_score : {None, Some(1), Some(3)},
     min_age_timestamp : {None, Some(1), Some(2)},
     max_age_timestamp : {None, Some(1)},
     filter_post_title : {None, Some(<<"a">>)}]

NumericFields ==
    {"filter_score", "filter_max_score", "min_age_timestamp", "max_age_timestamp"}

NumericCriteria ==
    {[EmptyCriteria EXCEPT ![f] = Some(v)] : f \in NumericFields, v \in 0..3}

TitleCriteria ==
    {[EmptyCriteria EXCEPT !.filter_post_title = Some(t)] :
        t \in {<<>>, <<"a">>, <<"A">>, <<"B">>, <<"a", "b">>, <<"b", "a">>}}

FilterCriteria == ComboCriteria \cup NumericCriteria \cup TitleCriteria
OneSource == {<<TRUE, FALSE>>, <<FALSE, TRUE>>}

FilterCall == fetch_user_items_call(FilterCriteria, OneSource, {FALSE})
FilterFetchPosts == fetch_posts(OnePostResponses(FilterPosts))
FilterFetchComments == fetch_comment_page(OneCommentResponses(FilterComments))

NextFilter ==
    \/ FilterCall
    \/ FilterFetchPosts
    \/ FilterFetchComments

SpecFilter == Init /\ [][NextFilter]_vars

(***************************************************************************)
(* The subreddit specification: one list option, every option string of    *)
(* up to MaxStrLen characters, one item.                                   *)
(***************************************************************************)
ListChars == {"a", "A", "b", " ", ","}
ListStrings == UNION {[1..n -> ListChars] : n \in 0..MaxStrLen}

SubredditCriteria ==
    {[EmptyCriteria EXCEPT ![f] = Some(list)] :
        f \in {"filter_subreddit", "exclude_subreddit"}, list \in ListStrings}

SubredditPosts == {post \in FilterPosts : post.ups = 2 /\ post.created_utc = 2}

SubredditComments ==
    {c \in FilterComments :
        c.score = Some(2) /\ c.created_utc = Some(2) /\ c.link_title = Some(<<"b">>)}

SubredditCall == fetch_user_items_call(SubredditCriteria, OneSource, {FALSE})
SubredditFetchPosts == fetch_posts(OnePostResponses(SubredditPosts))
SubredditFetchComments == fetch_comment_page(OneCommentResponses(SubredditComments))

NextSubreddit ==
    \/ SubredditCall
    \/ SubredditFetchPosts
    \/ SubredditFetchComments

SpecSubreddit == Init /\ [][NextSubreddit]_vars

(***************************************************************************)
(* Properties of the filters, read off the result of the call              *)
(***************************************************************************)
OnePost == pc = "returned" /\ do_fetch_posts /\ Len(raw_posts) = 1
OneComment == pc = "returned" /\ do_fetch_comments /\ Len(all_fetched_comments) = 1
OneItem == OnePost \/ OneComment
Kept == ReturnedOk /\ result[1].items # <<>>
Only(f) == crit[f] # None /\ crit = [EmptyCriteria EXCEPT ![f] = crit[f]]
ThePost == raw_posts[1]
TheComment == all_fetched_comments[1]

(* The item's fields as its UnifiedItem carries them.                      *)
Unified == IF OnePost THEN normalize_post(ThePost) ELSE normalize_comment(TheComment)

ConfiguredPostPredicatesHold ==
    /\ crit.filter_subreddit = None
          \/ post_include_match(ThePost, parse_subreddit_list(crit.filter_subreddit))
    /\ crit.exclude_subreddit = None
          \/ post_exclude_match(ThePost, parse_subreddit_list(crit.exclude_subreddit))
    /\ crit.filter_score = None \/ post_score_match(ThePost, crit.filter_score)
    /\ crit.filter_max_score = None
          \/ post_max_score_match(ThePost, crit.filter_max_score)
    /\ crit.min_age_timestamp = None
          \/ post_min_age_match(ThePost, crit.min_age_timestamp)
    /\ crit.max_age_timestamp = None
          \/ post_max_age_match(ThePost, crit.max_age_timestamp)

ConfiguredCommentPredicatesHold ==
    /\ crit.filter_subreddit = None
          \/ comment_include_match(TheComment, parse_subreddit_list(crit.filter_subreddit))
    /\ crit.exclude_subreddit = None
          \/ comment_exclude_match(TheComment, parse_subreddit_list(crit.exclude_subreddit))
    /\ crit.filter_score = None \/ comment_score_match(TheComment, crit.filter_score)
    /\ crit.filter_max_score = None
          \/ comment_max_score_match(TheComment, crit.filter_max_score)
    /\ crit.min_age_timestamp = None
          \/ older_than_match(TheComment, crit.min_age_timestamp)
    /\ crit.max_age_timestamp = None
          \/ newer_than_match(TheComment, crit.max_age_timestamp)
    /\ crit.filter_post_title = None
          \/ post_title_match(TheComment, crit.filter_post_title)

C5_ReturnedCommentSatisfiesOnUnified ==
    (OneComment /\ Kept) =>
        LET item == result[1].items[1] IN
        /\ crit.filter_subreddit # None =>
              any(parse_subreddit_list(crit.filter_subreddit)[1],
                  to_lowercase(item.subreddit))
        /\ crit.exclude_subreddit # None =>
              ~any(parse_subreddit_list(crit.exclude_subreddit)[1],
                   to_lowercase(item.subreddit))
        /\ crit.filter_score # None => item.upvotes >= crit.filter_score[1]
        /\ crit.filter_max_score # None => item.upvotes < crit.filter_max_score[1]
        /\ crit.min_age_timestamp # None =>
              item.created_utc <= crit.min_age_timestamp[1]
        /\ crit.max_age_timestamp # None =>
              item.created_utc >= crit.max_age_timestamp[1]

(* C6: with only min-age configured an item passes iff its created_utc is  *)
(* <= the bound, with only max-age configured iff it is >= the bound.      *)
C6_AgeBoundsInclusive ==
    /\ (OneItem /\ Only("min_age_timestamp")) =>
          (Kept <=> Unified.created_utc <= crit.min_age_timestamp[1])
    /\ (OneItem /\ Only("max_age_timestamp")) =>
          (Kept <=> Unified.created_utc >= crit.max_age_timestamp[1])

(* C7: with only min-score configured an item passes iff its score is >=   *)
(* the bound, with only max-score configured iff it is < the bound.        *)
C7_ScoreBounds ==
    /\ (OneItem /\ Only("filter_score")) =>
          (Kept <=> Unified.upvotes >= crit.filter_score[1])
    /\ (OneItem /\ Only("filter_max_score")) =>
          (Kept <=> Unified.upvotes < crit.filter_max_score[1])

(* The entries of a list option as the option is documented: the pieces    *)
(* between commas, trimmed and case-folded, the empty ones dropped.        *)
Pieces(s) ==
    {SubSeq(s, i, j) : <<i, j>> \in
        {ij \in (1..(Len(s) + 1)) \X (0..Len(s)) :
            /\ ij[1] <= ij[2] + 1
            /\ \A k \in ij[1]..ij[2] : s[k] # ","
            /\ ij[1] = 1 \/ s[ij[1] - 1] = ","
            /\ ij[2] = Len(s) \/ s[ij[2] + 1] = ","}}

Entries(s) == {to_lowercase(trim(piece)) : piece \in Pieces(s)} \ {<<>>}

(* C8: an item passes the include filter iff its case-folded subreddit is  *)
(* an entry of the list, and passes the exclude filter iff it is none.     *)
C8_SubredditMatching ==
    /\ (OneItem /\ Only("filter_subreddit")) =>
          (Kept <=> to_lowercase(Unified.subreddit) \in Entries(crit.filter_subreddit[1]))
    /\ (OneItem /\ Only("exclude_subreddit")) =>
          (Kept <=> to_lowercase(Unified.subreddit) \notin Entries(crit.exclude_subreddit[1]))

(* C9: no post is rejected because of the title criterion; a comment       *)
(* passes it iff it has a parent title whose case-folded form contains the *)
(* case-folded filter string.                                              *)
TitleMatches ==
    /\ TheComment.link_title # None
    /\ contains(to_lowercase(TheComment.link_title[1]),
                to_lowercase(crit.filter_post_title[1]))

C9_TitleFilterOnlyComments ==
    /\ (OnePost /\ Only("filter_post_title")) => Kept
    /\ OnePost => (Kept <=> ConfiguredPostPredicatesHold)
    /\ (OneComment /\ Only("filter_post_title")) => (Kept <=> TitleMatches)
    /\ (OneComment /\ crit.filter_post_title # None /\ Kept) => TitleMatches

(* What the code does guarantee for the bounds and the lists: the stated   *)
(* comparisons for every post and for every comment that carries the raw   *)
(* field; a comment without score or created_utc passes the score and age  *)
(* filters, a comment without subreddit fails both list filters.           *)
FieldPresent(f) == OnePost \/ TheComment[f] # None

AgeBoundsWhenPresent ==
    /\ (OneItem /\ Only("min_age_timestamp")) =>
          (Kept <=> \/ ~FieldPresent("created_utc")
                    \/ Unified.created_utc <= crit.min_age_timestamp[1])
    /\ (OneItem /\ Only("max_age_timestamp")) =>
          (Kept <=> \/ ~FieldPresent("created_utc")
                    \/ Unified.created_utc >= crit.max_age_timestamp[1])

ScoreBoundsWhenPresent ==
    /\ (OneItem /\ Only("filter_score")) =>
          (Kept <=> \/ ~FieldPresent("score")
                    \/ Unified.upvotes >= crit.filter_score[1])
    /\ (OneItem /\ Only("filter_max_score")) =>
          (Kept <=> \/ ~FieldPresent("score")
                    \/ Unified.upvotes < crit.filter_max_score[1])

SubredditMatchingWhenPresent ==
    /\ (OneItem /\ Only("filter_subreddit")) =>
          (Kept <=> /\ FieldPresent("subreddit")
                    /\ to_lowercase(Unified.subreddit)
                          \in Entries(crit.filter_subreddit[1]))
    /\ (OneItem /\ Only("exclude_subreddit")) =>
          (Kept <=> /\ FieldPresent("subreddit")
                    /\ to_lowercase(Unified.subreddit)
                          \notin Entries(crit.exclude_subreddit[1]))

(* A comment kept only thanks to case folding, under a title criterion.    *)
C9_Witness ==
    /\ OneComment
    /\ Kept
    /\ Only("filter_post_title")
    /\ ~contains(TheComment.link_title[1], crit.filter_post_title[1])

(***************************************************************************)
(* The action specification: a retrieval without filters against a remote  *)
(* that answers every request, followed by any sequence of action routines *)
(* on the returned items; and main's own run up to its deletion loop or    *)
(* its printing.                                                           *)
(***************************************************************************)
ActionPostResponses ==
    [kind : {"ok"}, children : {<<>>, <<PostNew>>, <<PostOld, PostNew>>},
     after : {None}]

ActionCommentResponses ==
    [kind : {"ok"}, children : CommentPages, after : {None}]

Sources == {<<TRUE, FALSE>>, <<FALSE, TRUE>>, <<TRUE, TRUE>>}

LoggedIn == {[access_token |-> Some(<<"t">>)]}

OverwriteTexts == {<<"x">>, <<"b">>}
EditOutcomes == {"ok", "err"}
DeleteOutcomes == {"success", "status", "send_err"}
CsvOutcomes == {"ok", "create_err", "write_err"}
CsvPaths == {<<"a">>, <<"b">>}

ConfirmationLines ==
    {<<"y", "e", "s", "\n">>, <<"Y", "E", "S", "\n">>,
     <<" ", "Y", "e", "s", "\r", "\n">>, <<"n", "o", "\n">>, <<"y", "\n">>,
     <<"y", "e", "s", "s", "\n">>, <<"\n">>, <<>>}

MainLines ==
    {<<"y", "\n">>, <<"Y", "\n">>, <<"n", "\n">>, <<"a", "\n">>,
     <<"y", "e", "s", "\n">>, <<"\n">>}

Reads(Lines) ==
    [kind : {"line"}, line : Lines] \cup {[kind |-> "io_err", line |-> <<>>]}

ActFetchCall == fetch_user_items_call({EmptyCriteria}, Sources, {FALSE})
ActFetchPosts == fetch_posts(ActionPostResponses)
ActFetchComments == fetch_comment_page(ActionCommentResponses)
ActMainStart == main_start({EmptyCriteria}, {FALSE}, {"ok"})
ActMainFetchPosts == main_fetch_posts(ActionPostResponses)
ActMainCommentPage == main_comment_page(ActionCommentResponses)
OverwriteCall == handle_overwrite_action_call(OverwriteTexts, LoggedIn)
OverwriteItem == overwrite_item(EditOutcomes)
DeleteCall == handle_delete_action_call(BOOLEAN, LoggedIn, BOOLEAN)
ReadConfirmation == read_confirmation(Reads(ConfirmationLines))
DeleteItem == delete_item(DeleteOutcomes)
CsvExport == handle_csv_export(CsvOutcomes, {<<"a">>})
PrintToConsole == handle_print_to_console
MainDeleteStart == main_delete_start
MainDeletePrompt == main_delete_prompt(Reads(MainLines), DeleteOutcomes)
MainPrint == main_print

NextActions ==
    \/ ActFetchCall
    \/ ActFetchPosts
    \/ ActFetchComments
    \/ ActMainStart
    \/ ActMainFetchPosts
    \/ ActMainCommentPage
    \/ OverwriteCall
    \/ OverwriteItem
    \/ DeleteCall
    \/ ReadConfirmation
    \/ DeleteItem
    \/ CsvExport
    \/ PrintToConsole
    \/ MainDeleteStart
    \/ MainDeletePrompt
    \/ MainPrint

SpecActions == Init /\ [][NextActions]_vars

(* The two renderings after a retrieval, in either debug mode and with two *)
(* export files; overwrite changes what is rendered.                       *)
OutFetchCall == fetch_user_items_call({EmptyCriteria}, Sources, BOOLEAN)
OutMainStart == main_start({EmptyCriteria}, BOOLEAN, {"ok"})
OutCsvExport == handle_csv_export(CsvOutcomes, CsvPaths)

NextOutput ==
    \/ OutFetchCall
    \/ ActFetchPosts
    \/ ActFetchComments
    \/ OutMainStart
    \/ ActMainFetchPosts
    \/ ActMainCommentPage
    \/ OverwriteCall
    \/ OverwriteItem
    \/ OutCsvExport
    \/ PrintToConsole
    \/ MainPrint

SpecOutput == Init /\ [][NextOutput]_vars

(***************************************************************************)
(* Properties of the action routines                                       *)
(***************************************************************************)
Yes == <<"y", "e", "s">>
InDelete == handler = "delete"
InOverwrite == handler = "overwrite"
ActionDone == pc = "acted" /\ action_result # None
ActionOk == ActionDone /\ action_result[1].tag = "Ok"
Outcomes(wanted) == {i \in 1..Len(api_requests) : api_requests[i].outcome \in wanted}

(* The answer on a confirmation line: the line without its terminator and  *)
(* surrounding blanks, letter case aside.                                  *)
Answer(line) == to_lowercase(trim(line))

(* C11: when handle_delete_action, called with a non-empty batch and       *)
(* skip_confirmation = false, has read a confirmation line whose answer is *)
(* not "yes", it has returned Ok(0) and issued no delete request.          *)
C11_RefusalAbortsBatch ==
    (/\ InDelete
     /\ items_at_call # <<>>
     /\ ~skip_confirmation
     /\ stdin_reads # <<>>
     /\ Answer(stdin_reads[1]) # Yes)
        => /\ api_requests = <<>>
           /\ pc = "acted"
           /\ action_result = OkValue(0)

(* A batch of two items refused with "no".                                 *)
C11_Witness ==
    /\ InDelete
    /\ Len(items_at_call) = 2
    /\ ~skip_confirmation
    /\ stdin_reads = <<(<<"n", "o", "\n">>)>>
    /\ action_result = OkValue(0)
    /\ api_requests = <<>>

(* The answers that are accepted do start the deletion: "yes" in any       *)
(* letter case, blanks around it ignored.                                  *)
YesStartsDeletion ==
    (/\ InDelete
     /\ items_at_call # <<>>
     /\ stdin_reads # <<>>
     /\ Answer(stdin_reads[1]) = Yes)
        => /\ confirmed_to_delete
           /\ pc = "d_loop" \/ Len(api_requests) = Len(items_at_call)

(* C12: handle_delete_action on an empty item sequence returns Ok(0); it   *)
(* prints no confirmation prompt, reads no line and issues no request,     *)
(* whatever skip_confirmation is.                                          *)
C12_EmptyBatchShortCircuits ==
    (InDelete /\ items_at_call = <<>>)
        => /\ prompts = 0
           /\ stdin_reads = <<>>
           /\ api_requests = <<>>
           /\ pc = "acted"
           /\ action_result = OkValue(0)

(* The empty batch with confirmation required.                             *)
C12_Witness ==
    /\ InDelete
    /\ items_at_call = <<>>
    /\ ~skip_confirmation
    /\ action_result = OkValue(0)

(* The empty batch with confirmation skipped.                              *)
EmptyBatchSkipping ==
    /\ InDelete
    /\ items_at_call = <<>>
    /\ skip_confirmation
    /\ action_result = OkValue(0)

InDeleteStep == handler \in {"delete", "main_delete"}

(* C13: in a run of the delete step over one or more items at most one     *)
(* confirmation line is read, none when skip_confirmation is set, and no   *)
(* line is read once a delete request was issued.                          *)
C13_OneConfirmationPerBatch ==
    /\ []((InDeleteStep /\ items_at_call # <<>>) =>
             /\ Len(stdin_reads) <= 1
             /\ skip_confirmation => stdin_reads = <<>>)
    /\ [][(InDeleteStep /\ api_requests # <<>>) =>
             Len(stdin_reads') <= Len(stdin_reads)]_vars

(* What holds of handle_delete_action alone: one confirmation for the      *)
(* batch, read before the first request.                                   *)
BatchConfirmationInHandler ==
    /\ []((InDelete /\ items_at_call # <<>>) =>
             /\ Len(stdin_reads) <= 1
             /\ prompts <= 1
             /\ skip_confirmation => (stdin_reads = <<>> /\ prompts = 0))
    /\ [][(InDelete /\ api_requests # <<>>) =>
             Len(stdin_reads') <= Len(stdin_reads)]_vars

(* main's loop asked again for a second item, after a delete request.      *)
PerItemConfirmationInMain ==
    /\ handler = "main_delete"
    /\ Len(stdin_reads) = 2
    /\ Len(api_requests) = 2

(* C14: in a confirmed batch every request is counted as deleted or as     *)
(* failed, a failed one does not end the loop, and the call returns, after *)
(* one request per item, the number of requests answered with a success    *)
(* status.                                                                 *)
C14_BestEffortDeletion ==
    (InDelete /\ confirmed_to_delete) =>
        /\ success_count + fail_count = Len(api_requests)
        /\ Len(api_requests) < Len(items_at_call) => pc = "d_loop"
        /\ Len(api_requests) = Len(items_at_call) =>
              /\ ActionOk
              /\ success_count + fail_count = Len(items_at_call)
              /\ action_result[1].value = Cardinality(Outcomes({"success"}))

(* A batch in which an error status and a transport error were followed by *)
(* a successful deletion.                                                  *)
C14_Witness ==
    /\ InDelete
    /\ ActionOk
    /\ Len(items_at_call) >= 3
    /\ Len(api_requests) = Len(items_at_call)
    /\ api_requests[1].outcome = "status"
    /\ api_requests[2].outcome = "send_err"
    /\ api_requests[3].outcome = "success"
    /\ action_result[1].value >= 1

(* C15: after handle_overwrite_action an item's content equals the         *)
(* replacement text iff its edit succeeded and is unchanged if it failed;  *)
(* the two counts add up to the number of items and success_count is the   *)
(* number of successful edits.                                             *)
C15_ContentIffEditSucceeded ==
    (InOverwrite /\ ActionDone) =>
        /\ \A i \in 1..Len(all_items) :
              /\ all_items[i].content = overwrite_text
                    <=> api_requests[i].outcome = "ok"
              /\ api_requests[i].outcome # "ok" =>
                    all_items[i].content = items_at_call[i].content
        /\ success_count + fail_count = Len(all_items)
        /\ success_count = Cardinality(Outcomes({"ok"}))

(* C15 as amended: after handle_overwrite_action an item's content equals  *)
(* the replacement text if its edit succeeded and is unchanged if it       *)
(* failed; the counts as above.                                            *)
C15_OverwriteReflectsEdits ==
    (InOverwrite /\ ActionDone) =>
        /\ \A i \in 1..Len(all_items) :
              /\ api_requests[i].outcome = "ok" =>
                    all_items[i].content = overwrite_text
              /\ api_requests[i].outcome # "ok" =>
                    all_items[i].content = items_at_call[i].content
        /\ success_count + fail_count = Len(all_items)
        /\ success_count = Cardinality(Outcomes({"ok"}))

(* Item A overwritten, item B's edit failed and B kept its content.        *)
C15_Witness ==
    /\ InOverwrite
    /\ ActionDone
    /\ Len(all_items) = 2
    /\ api_requests[1].outcome = "ok"
    /\ api_requests[2].outcome = "err"
    /\ success_count = 1
    /\ fail_count = 1
    /\ all_items[1].content = overwrite_text
    /\ items_at_call[1].content # overwrite_text
    /\ all_items[2].content # overwrite_text

(* The requests a loop over the batch has issued so far: one per item gone *)
(* through, in sequence order, each with the item's id.                    *)
OnePerItemSoFar(op) ==
    /\ Len(api_requests) = index
    /\ index <= Len(items_at_call)
    /\ \A i \in 1..Len(api_requests) :
          /\ api_requests[i].op = op
          /\ api_requests[i].id = items_at_call[i].id

(* C16: handle_overwrite_action and a confirmed handle_delete_action issue *)
(* one request per item, in sequence order, each carrying the item's id,   *)
(* and stop only after the last item, whatever the earlier outcomes.       *)
C16_OneRequestPerItemInOrder ==
    /\ InOverwrite =>
          /\ OnePerItemSoFar("edit")
          /\ IF index = Len(items_at_call) THEN ActionOk ELSE pc = "o_loop"
    /\ (InDelete /\ confirmed_to_delete) =>
          /\ OnePerItemSoFar("del")
          /\ IF index = Len(items_at_call) THEN ActionOk ELSE pc = "d_loop"

(* A deletion that went through three items although the first two         *)
(* requests failed.                                                        *)
C16_Witness ==
    /\ InDelete
    /\ ActionOk
    /\ Len(api_requests) >= 3
    /\ api_requests[1].outcome = "send_err"
    /\ api_requests[2].outcome = "status"
    /\ api_requests[1].id # api_requests[2].id

(* An overwrite that went on after a failed edit.                          *)
OverwriteContinuesAfterFailure ==
    /\ InOverwrite
    /\ ActionOk
    /\ Len(api_requests) >= 2
    /\ api_requests[1].outcome = "err"

(* The steps taken once the items exist: by an action routine, or by main  *)
(* after its sort.                                                         *)
AfterCreation ==
    pc \in {"returned", "acted", "o_loop", "d_read", "d_loop",
            "m_sorted", "m_prompt", "m_done"}

(* C17: a step taken after the items were created keeps the length and the *)
(* order of the sequence and every field of every item except content, and *)
(* only a step of the overwrite loop changes anything: delete, CSV export  *)
(* and console print leave the sequence as it was.                         *)
C17_OnlyOverwriteChangesContent ==
    [][AfterCreation =>
          /\ Len(all_items') = Len(all_items)
          /\ \A i \in 1..Len(all_items) :
                [all_items'[i] EXCEPT !.content = all_items[i].content]
                    = all_items[i]
          /\ pc # "o_loop" => all_items' = all_items]_vars

(* Items overwritten and then deleted are still in the sequence.           *)
C17_Witness ==
    /\ InDelete
    /\ ActionOk
    /\ action_result[1].value = Len(all_items)
    /\ Len(all_items) >= 2
    /\ all_items = items_at_call
    /\ all_items[1].content = <<"x">>
    /\ all_items[2].content # <<"x">>

(* C18: every edit or delete request issued for a retrieved item carries a *)
(* non-empty id, and the retrieved items have pairwise different ids.      *)
C18_RequestsCarryUniqueIds ==
    /\ \A i \in 1..Len(api_requests) : api_requests[i].id # <<>>
    /\ AfterCreation =>
          \A i, j \in 1..Len(all_items) :
              i # j => all_items[i].id # all_items[j].id

(* What the normalisation does guarantee: the id of an item is the name of *)
(* its raw record, and the empty string for a comment without name.        *)
IdIsRawNameOrEmpty ==
    (pc = "returned" /\ result # None /\ result[1].tag = "Ok") =>
        /\ \A i \in 1..Len(all_items) :
              \/ \E k \in 1..Len(raw_posts) : all_items[i].id = raw_posts[k].name
              \/ \E k \in 1..Len(all_fetched_comments) :
                    all_items[i].id = unwrap_or(all_fetched_comments[k].name, <<>>)

(* C19: a post listing answered with a cursor is followed by a request for *)
(* the next page of posts: after a first page that carries a cursor the    *)
(* post retrieval has not ended.                                           *)
C19_PostListingFollowsCursor ==
    (post_requests = 1 /\ post_after # None) => pc \in {"f_posts", "m_posts"}

(* What the code does: one request for the post listing, whatever cursor   *)
(* the response carries.                                                   *)
PostListingRequestedOnce ==
    /\ post_requests <= 1
    /\ post_requests = 1 => pc \notin {"f_posts", "m_posts"}

InMain == pc \in {"m_posts", "m_comments", "m_sorted", "m_prompt", "m_done"}

(* C20: in main, item type `post` selects posts only, `comment` comments   *)
(* only, `both` or no option both sources, and no recognised value leaves  *)
(* both sources unselected.                                                *)
C20_ItemTypeSelection ==
    InMain =>
        /\ item_type = Some(<<"p", "o", "s", "t">>) =>
              (do_fetch_posts /\ ~do_fetch_comments)
        /\ item_type = Some(<<"c", "o", "m", "m", "e", "n", "t">>) =>
              (~do_fetch_posts /\ do_fetch_comments)
        /\ item_type \in {None, Some(<<"b", "o", "t", "h">>)} =>
              (do_fetch_posts /\ do_fetch_comments)
        /\ item_type \in {None, Some(<<"b", "o", "t", "h">>),
                          Some(<<"p", "o", "s", "t">>),
                          Some(<<"c", "o", "m", "m", "e", "n", "t">>)} =>
              (do_fetch_posts \/ do_fetch_comments)

(* What main does select: the plural words, in any letter case, and both   *)
(* sources for `both` or no option; any other word selects neither.        *)
PluralItemTypeSelection ==
    InMain =>
        /\ item_type \in {Some(<<"p", "o", "s", "t", "s">>),
                          Some(<<"P", "o", "s", "t", "s">>)} =>
              (do_fetch_posts /\ ~do_fetch_comments)
        /\ item_type = Some(<<"c", "o", "m", "m", "e", "n", "t", "s">>) =>
              (~do_fetch_posts /\ do_fetch_comments)
        /\ item_type \in {None, Some(<<"b", "o", "t", "h">>)} =>
              (do_fetch_posts /\ do_fetch_comments)
        /\ item_type \in {Some(<<"p", "o", "s", "t">>),
                          Some(<<"c", "o", "m", "m", "e", "n", "t">>)} =>
              (~do_fetch_posts /\ ~do_fetch_comments)

(***************************************************************************)
(* The error stream                                                        *)
(***************************************************************************)
(* The lines that report a failure of the given kind.                      *)
reports_of(kind) ==
    CASE kind = "login_err" -> {"Failed to log in to Reddit"}
      [] kind = "me_err" -> {"Failed to fetch your user data"}
      [] kind = "posts" -> {"Failed to fetch your submitted posts",
                            "Failed to parse submitted posts JSON"}
      [] kind = "comments" -> {"Error fetching page of comments",
                               "Failed to parse comments JSON on page"}
      [] kind = "edit" -> {"Failed to overwrite"}
      [] kind = "delete" -> {"Error sending delete request for item",
                             "Failed to delete item - API Error Status"}
      [] OTHER -> {}

FailureKinds == {"login_err", "me_err", "posts", "comments", "edit", "delete"}

Occurred(kind) == Cardinality({i \in 1..Len(failures) : failures[i] = kind})
Reported(kind) ==
    Cardinality({i \in 1..Len(stderr) : stderr[i] \in reports_of(kind)})

MainRan == InMain \/ pc \in {"m_returned", "m_panicked"}

(* C21: every failure of a run of main (login, post fetch, comment page    *)
(* fetch, per-item overwrite, per-item delete) has its line on the error   *)
(* stream, whether or not debug mode is on.                                *)
C21_EveryFailureReported ==
    MainRan => \A kind \in FailureKinds : Reported(kind) = Occurred(kind)

(* What does hold: in debug mode every failure has its line, and a failed  *)
(* edit or delete request has its line in every mode.                      *)
FailuresReportedInDebug ==
    debug_mode => \A kind \in FailureKinds : Reported(kind) = Occurred(kind)

ItemFailuresAlwaysReported ==
    \A kind \in {"edit", "delete"} : Reported(kind) = Occurred(kind)

(***************************************************************************)
(* Start without a configuration file                                      *)
(***************************************************************************)
ConfigMissing == MainRan /\ failures = <<"config_missing">>

NoLoginNoRequest ==
    /\ session.access_token = None
    /\ post_requests = 0
    /\ page_count = 0
    /\ api_requests = <<>>

(* C22: a run that finds no config.toml ends with a failure status and the *)
(* line "Failed to locate config file 'config.toml'" (with the searched    *)
(* paths) on the error stream, before any login or request.                *)
C22_MissingConfigIsLocatedFailure ==
    ConfigMissing =>
        /\ pc = "m_panicked"
        /\ \E i \in 1..Len(stderr) :
              stderr[i] = "Failed to locate config file 'config.toml'"
        /\ NoLoginNoRequest

(* What main does: it panics before any login or request, with the         *)
(* message of its expect() and nothing about searched paths.               *)
MissingConfigPanics ==
    ConfigMissing =>
        /\ pc = "m_panicked"
        /\ stderr = <<"Failed to read config.toml. Make sure it exists in the project root.">>
        /\ NoLoginNoRequest

(***************************************************************************)
(* config.rs: the search for the configuration file.  A path is the        *)
(* sequence of its components; an absolute path begins with the root "/".  *)
(* The file system gives each candidate path the state of the file there.  *)
(***************************************************************************)
APPLICATION_DIR == "bydit"

is_absolute(path) == path # <<>> /\ path[1] = "/"

(* PathBuf::join: an absolute argument replaces the base.                  *)
join(base, path) == IF is_absolute(path) THEN path ELSE base \o path

(* Mutant: the data directory is searched before the configuration         *)
(* directory, and HOME is used whenever it is set.                         *)
candidate_paths_home_first(filename, env_paths) ==
    LET requested == filename
        base_dir == unwrap_or(env_paths.current_dir, <<".">>)
        in_config ==
            IF is_some(env_paths.home_dir)
            THEN <<join(join(join(env_paths.home_dir[1], <<".config">>),
                             <<APPLICATION_DIR>>), requested)>>
            ELSE IF is_some(env_paths.xdg_config_home)
            THEN <<join(join(env_paths.xdg_config_home[1],
                             <<APPLICATION_DIR>>), requested)>>
            ELSE <<>>
        in_data ==
            IF is_some(env_paths.xdg_data_home)
            THEN <<join(join(env_paths.xdg_data_home[1],
                             <<APPLICATION_DIR>>), requested)>>
            ELSE IF is_some(env_paths.home_dir)
            THEN <<join(join(join(join(env_paths.home_dir[1], <<".local">>),
                                  <<"share">>), <<APPLICATION_DIR>>),
                        requested)>>
            ELSE <<>>
    IN  IF is_absolute(requested)
        THEN <<requested>>
        ELSE <<join(base_dir, requested)>> \o in_data \o in_config

candidate_paths_with_env(filename, env_paths) ==
    LET requested == filename
        base_dir == unwrap_or(env_paths.current_dir, <<".">>)
        in_config ==
            IF is_some(env_paths.xdg_config_home)
            THEN <<join(join(env_paths.xdg_config_home[1],
                             <<APPLICATION_DIR>>), requested)>>
            ELSE IF is_some(env_paths.home_dir)
            THEN <<join(join(join(env_paths.home_dir[1], <<".config">>),
                             <<APPLICATION_DIR>>), requested)>>
            ELSE <<>>
        in_data ==
            IF is_some(env_paths.xdg_data_home)
            THEN <<join(join(env_paths.xdg_data_home[1],
                             <<APPLICATION_DIR>>), requested)>>
            ELSE IF is_some(env_paths.home_dir)
            THEN <<join(join(join(join(env_paths.home_dir[1], <<".local">>),
                                  <<"share">>), <<APPLICATION_DIR>>),
                        requested)>>
            ELSE <<>>
    IN  IF is_absolute(requested)
        THEN <<requested>>
        ELSE <<join(base_dir, requested)>> \o in_config \o in_data

(* The listing of the searched paths in the error message: "none" for an   *)
(* empty list, else the paths in order (joined by ", " in the text).       *)
format_paths(paths) == IF paths = <<>> THEN <<<<"none">>>> ELSE paths

(* What load_config_with_env returns and writes to the error stream.       *)
config_outcome(tag, kind, origin, msg, file, checked, lines) ==
    [tag |-> tag, kind |-> kind, origin |-> origin, msg |-> msg,
     file |-> file, checked |-> checked, stderr |-> lines]

(* parse_config: the contents of a well-formed file give the Config read   *)
(* from that file, anything else an InvalidData error naming the file.     *)
parse_config(contents, origin, debug, lines) ==
    IF contents = "valid"
    THEN config_outcome("Ok", "", origin, "", <<>>, <<>>, lines)
    ELSE config_outcome("Err", "InvalidData", <<>>,
                        "Failed to parse config file", origin, <<>>,
                        eprintln_if(debug, lines,
                                    "Failed to parse config file. Check its format."))

(* The guard of the arm that moves on to the next candidate:               *)
(* Err(err) if err.kind() == ErrorKind::NotFound                           *)
(* Mutant: any read error moves on to the next candidate.                  *)
is_not_found_or_unreadable(state) == state \in {"missing", "denied"}

is_not_found(state) == state = "missing"

(* The loop over the candidates from the i-th on, and the NotFound error   *)
(* after the last.                                                         *)
RECURSIVE search_candidates(_, _, _, _, _, _)
search_candidates(candidates, i, searched_paths, filename, debug, files) ==
    IF i > Len(candidates)
    THEN config_outcome("Err", "NotFound", <<>>,
                        "Failed to locate config file", filename,
                        format_paths(searched_paths),
                        eprintln_if(debug, <<>>, "Failed to locate config file"))
    ELSE LET candidate == candidates[i]
         IN  CASE is_not_found(files[candidate]) ->
                      search_candidates(candidates, i + 1,
                                        Append(searched_paths, candidate),
                                        filename, debug, files)
               [] files[candidate] = "denied" ->
                      config_outcome("Err", "PermissionDenied", <<>>,
                                     "Failed to read config file", candidate,
                                     <<>>, <<>>)
               [] OTHER ->
                      parse_config(files[candidate], candidate, debug,
                                   eprintln_if(debug, <<>>,
                                               "Using config file at"))

RECURSIVE reversed(_)
reversed(s) == IF s = <<>> THEN <<>> ELSE Append(reversed(Tail(s)), Head(s))

(* Mutant: the candidates are tried from the last to the first.            *)
load_config_from_last(filename, debug, env_paths, files) ==
    search_candidates(reversed(candidate_paths_with_env(filename, env_paths)),
                      1, <<>>, filename, debug, files)

load_config_with_env(filename, debug, env_paths, files) ==
    search_candidates(candidate_paths_with_env(filename, env_paths),
                      1, <<>>, filename, debug, files)

Filenames ==
    {<<"config.toml">>, <<"sub", "c.toml">>, <<"/", "etc", "c.toml">>}

EnvironmentPaths ==
    [xdg_config_home : {None, Some(<<"/", "xc">>), Some(<<"rel">>)},
     xdg_data_home : {None, Some(<<"/", "xd">>)},
     home_dir : {None, Some(<<"/", "h">>)},
     current_dir : {None, Some(<<"/", "w">>)}]

FileStates == {"missing", "denied", "valid", "invalid"}

paths_of(candidates) == {candidates[i] : i \in 1..Len(candidates)}

(* candidate_paths_with_env applied to a file name and an environment.     *)
candidate_paths_call(Names, Environments) ==
    /\ pc = "start"
    /\ \E filename \in Names, env_paths \in Environments :
        /\ util_input' = Some([filename |-> filename, env_paths |-> env_paths])
        /\ util_output' = Some(candidate_paths_with_env(filename, env_paths))
    /\ pc' = "candidates"
    /\ UNCHANGED <<all_items, retrieval_vars, action_vars, report_vars,
                   export_vars>>

(* load_config_with_env applied to a file name and an environment, over a  *)
(* file system that gives every candidate path a state.                    *)
load_config_call(Names, Environments, States, Debug) ==
    /\ pc = "start"
    /\ \E filename \in Names, env_paths \in Environments, d \in Debug :
        \E files \in [paths_of(candidate_paths_with_env(filename, env_paths))
                        -> States] :
            LET outcome == load_config_with_env(filename, d, env_paths, files)
            IN  /\ util_input' = Some([filename |-> filename,
                                       env_paths |-> env_paths,
                                       files |-> files])
                /\ util_output' = Some(outcome)
                /\ debug_mode' = d
                /\ stderr' = outcome.stderr
    /\ pc' = "config_loaded"
    /\ UNCHANGED <<all_items, retrieval_vars, action_vars, failures,
                   export_vars>>

CandidatePaths == candidate_paths_call(Filenames, EnvironmentPaths)
LoadConfig == load_config_call(Filenames, EnvironmentPaths, FileStates, BOOLEAN)

NextConfig ==
    \/ CandidatePaths
    \/ LoadConfig

SpecConfig == Init /\ [][NextConfig]_vars

(* The three places, in the words of the search order.                     *)
InWorkingDir(env_paths, name) ==
    (IF env_paths.current_dir = None THEN <<".">> ELSE env_paths.current_dir[1])
      \o name
InConfigDir(env_paths, name) ==
    IF env_paths.xdg_config_home # None
    THEN env_paths.xdg_config_home[1] \o <<"bydit">> \o name
    ELSE env_paths.home_dir[1] \o <<".config", "bydit">> \o name
InDataDir(env_paths, name) ==
    IF env_paths.xdg_data_home # None
    THEN env_paths.xdg_data_home[1] \o <<"bydit">> \o name
    ELSE env_paths.home_dir[1] \o <<".local", "share", "bydit">> \o name

HasConfigDir(env_paths) ==
    env_paths.xdg_config_home # None \/ env_paths.home_dir # None
HasDataDir(env_paths) ==
    env_paths.xdg_data_home # None \/ env_paths.home_dir # None

(* C23: for a relative file name the candidates are, in this order, the    *)
(* file under the working directory, the file under XDG_CONFIG_HOME/bydit  *)
(* (under HOME/.config/bydit only when XDG_CONFIG_HOME is unset), and the  *)
(* file under XDG_DATA_HOME/bydit (under HOME/.local/share/bydit only when *)
(* XDG_DATA_HOME is unset); an absolute file name is the only candidate.   *)
C23_CandidateOrder ==
    pc = "candidates" =>
        LET name == util_input[1].filename
            env_paths == util_input[1].env_paths
            paths == util_output[1]
        IN  IF name[1] = "/"
            THEN paths = <<name>>
            ELSE /\ paths[1] = InWorkingDir(env_paths, name)
                 /\ Len(paths) = 1 + (IF HasConfigDir(env_paths) THEN 1 ELSE 0)
                                   + (IF HasDataDir(env_paths) THEN 1 ELSE 0)
                 /\ HasConfigDir(env_paths) =>
                        paths[2] = InConfigDir(env_paths, name)
                 /\ HasDataDir(env_paths) =>
                        paths[Len(paths)] = InDataDir(env_paths, name)

(* A relative name with XDG_CONFIG_HOME set, XDG_DATA_HOME unset and HOME  *)
(* set: three candidates, the last one under HOME.                         *)
C23_Witness ==
    /\ pc = "candidates"
    /\ util_input[1].filename = <<"config.toml">>
    /\ util_input[1].env_paths.xdg_config_home = Some(<<"/", "xc">>)
    /\ util_input[1].env_paths.xdg_data_home = None
    /\ util_input[1].env_paths.home_dir = Some(<<"/", "h">>)
    /\ util_output[1] = << <<"/", "w", "config.toml">>,
                           <<"/", "xc", "bydit", "config.toml">>,
                           <<"/", "h", ".local", "share", "bydit", "config.toml">> >>

ConfigLoaded == pc = "config_loaded"
Candidates ==
    candidate_paths_with_env(util_input[1].filename, util_input[1].env_paths)

(* Index of the first candidate that is there, 0 when all are missing.     *)
FirstExisting ==
    LET there == {i \in 1..Len(Candidates) :
                     util_input[1].files[Candidates[i]] # "missing"}
    IN  IF there = {} THEN 0 ELSE CHOOSE i \in there : \A j \in there : i <= j

(* C24: the configuration returned is the one parsed from the first        *)
(* candidate, in candidate order, that exists; when every candidate is     *)
(* missing the result is a NotFound error whose message lists every        *)
(* candidate checked.                                                      *)
C24_FirstExistingCandidateWins ==
    ConfigLoaded =>
        LET out == util_output[1]
            k == FirstExisting
        IN  /\ (k > 0 /\ util_input[1].files[Candidates[k]] = "valid") =>
                  /\ out.tag = "Ok"
                  /\ out.origin = Candidates[k]
            /\ out.tag = "Ok" => (k > 0 /\ out.origin = Candidates[k])
            /\ k = 0 =>
                  /\ out.tag = "Err"
                  /\ out.kind = "NotFound"
                  /\ out.msg = "Failed to locate config file"
                  /\ out.file = util_input[1].filename
                  /\ out.checked = Candidates

(* Two missing candidates are skipped and the third one is parsed.         *)
C24_Witness ==
    /\ ConfigLoaded
    /\ Len(Candidates) = 3
    /\ FirstExisting = 3
    /\ util_output[1].tag = "Ok"
    /\ util_output[1].origin = Candidates[3]

(* Every candidate of three is missing and all three are listed.           *)
AllMissingListed ==
    /\ ConfigLoaded
    /\ Len(Candidates) = 3
    /\ FirstExisting = 0
    /\ util_output[1].kind = "NotFound"
    /\ Len(util_output[1].checked) = 3

(***************************************************************************)
(* utils.rs: the two utility functions applied to enumerated arguments     *)
(***************************************************************************)
FieldAlphabet == {"\r", "\n", "\"", "\\", "n", "a"}

Fields == UNION {[1..n -> FieldAlphabet] : n \in 0..MaxFieldLen}

escape_csv_field_call(Arguments) ==
    /\ pc = "start"
    /\ \E field \in Arguments :
        /\ util_input' = Some(field)
        /\ util_output' = Some(escape_csv_field(field))
    /\ pc' = "escaped"
    /\ UNCHANGED <<all_items, retrieval_vars, action_vars, report_vars,
                   export_vars>>

(* The verdicts of the four library parsers on the argument, in the order  *)
(* the routine consults them: the duration in seconds, or the timestamp.   *)
humantime_parse_duration(age) == age.duration
parse_from_rfc3339(age) == age.rfc3339
parse_naive_datetime(age) == age.naive_datetime
parse_naive_date(age) == age.naive_date

age_outcome(tag, value, msg, age_str) ==
    [tag |-> tag, value |-> value, msg |-> msg, age_str |-> age_str]

(* Mutant: the plain date is tried before the other date formats.          *)
parse_age_date_first(age, now) ==
    IF is_some(humantime_parse_duration(age))
    THEN IF now < 0
         THEN age_outcome("Err", 0, "SystemTimeError", "")
         ELSE age_outcome("Ok", now - humantime_parse_duration(age)[1], "", "")
    ELSE IF is_some(parse_naive_date(age))
    THEN age_outcome("Ok", parse_naive_date(age)[1], "", "")
    ELSE IF is_some(parse_from_rfc3339(age))
    THEN age_outcome("Ok", parse_from_rfc3339(age)[1], "", "")
    ELSE IF is_some(parse_naive_datetime(age))
    THEN age_outcome("Ok", parse_naive_datetime(age)[1], "", "")
    ELSE age_outcome("Err", 0, "Could not parse", age.age_str)

(* now is the clock reading in seconds since the epoch; a reading before   *)
(* the epoch fails the duration arm.                                       *)
parse_age_to_timestamp(age, now) ==
    IF is_some(humantime_parse_duration(age))
    THEN IF now < 0
         THEN age_outcome("Err", 0, "SystemTimeError", "")
         ELSE age_outcome("Ok", now - humantime_parse_duration(age)[1], "", "")
    ELSE IF is_some(parse_from_rfc3339(age))
    THEN age_outcome("Ok", parse_from_rfc3339(age)[1], "", "")
    ELSE IF is_some(parse_naive_datetime(age))
    THEN age_outcome("Ok", parse_naive_datetime(age)[1], "", "")
    ELSE IF is_some(parse_naive_date(age))
    THEN age_outcome("Ok", parse_naive_date(age)[1], "", "")
    ELSE age_outcome("Err", 0, "Could not parse", age.age_str)

(* Arguments with every combination of parser verdicts; the values differ  *)
(* from parser to parser so that the result shows which one was used.      *)
AgeStrings ==
    [age_str : {"1 week", "2024-01-15"},
     duration : {None, Some(7)},
     rfc3339 : {None, Some(100)},
     naive_datetime : {None, Some(200)},
     naive_date : {None, Some(300)}]

Clocks == {1000, 2000}

parse_age_to_timestamp_call(Arguments, Readings) ==
    /\ pc = "start"
    /\ \E age \in Arguments, now \in Readings :
        /\ util_input' = Some([age |-> age, now |-> now])
        /\ util_output' = Some(parse_age_to_timestamp(age, now))
    /\ pc' = "age_parsed"
    /\ UNCHANGED <<all_items, retrieval_vars, action_vars, report_vars,
                   export_vars>>

EscapeCsvField == escape_csv_field_call(Fields)
ParseAge == parse_age_to_timestamp_call(AgeStrings, Clocks)

NextUtils ==
    \/ EscapeCsvField
    \/ ParseAge

SpecUtils == Init /\ [][NextUtils]_vars

(* The escaping as one pass from left to right.                            *)
RECURSIVE EscapedInOnePass(_)
EscapedInOnePass(s) ==
    IF s = <<>>
    THEN <<>>
    ELSE IF Len(s) >= 2 /\ s[1] = "\r" /\ s[2] = "\n"
    THEN <<"\\", "n">> \o EscapedInOnePass(SubSeq(s, 3, Len(s)))
    ELSE IF s[1] = "\r" \/ s[1] = "\n"
    THEN <<"\\", "n">> \o EscapedInOnePass(Tail(s))
    ELSE IF s[1] = "\""
    THEN <<"\"", "\"">> \o EscapedInOnePass(Tail(s))
    ELSE <<s[1]>> \o EscapedInOnePass(Tail(s))

(* C25: escape_csv_field replaces each CR LF pair by one backslash-n, each *)
(* remaining lone LF or CR by backslash-n and each double quote by two,    *)
(* leaves every other character in place, and its output holds no CR and   *)
(* no LF.                                                                  *)
C25_EscapeCsvField ==
    pc = "escaped" =>
        /\ util_output[1] = EscapedInOnePass(util_input[1])
        /\ \A i \in 1..Len(util_output[1]) :
              util_output[1][i] \notin {"\r", "\n"}

(* A field with a CR LF pair, a lone LF and a double quote.                *)
C25_Witness ==
    /\ pc = "escaped"
    /\ util_input[1] = <<"\r", "\n", "\n", "\"">>
    /\ util_output[1] = <<"\\", "n", "\\", "n", "\"", "\"">>

UnparsableAgeRejected ==
    /\ pc = "age_parsed"
    /\ util_output[1].tag = "Err"
    /\ util_output[1].age_str = "2024-01-15"

(***************************************************************************)
(* The console print and the CSV export                                    *)
(***************************************************************************)
Printed == handler = "print" /\ pc = "acted"
MainPrinted == handler = "main_print" /\ pc = "m_done"

(* The lines of the printing itself: main adds two closing lines in debug  *)
(* mode.                                                                   *)
PrintedLines ==
    IF MainPrinted /\ debug_mode
    THEN SubSeq(output, 1, Len(output) - 2)
    ELSE output

(* C26: for an empty sequence the console print writes neither the header  *)
(* nor a row, only the placeholder notice when debug mode is on; for a     *)
(* non-empty sequence it writes the header exactly once, followed by       *)
(* exactly one line per item in sequence order.                            *)
C26_ConsolePrint ==
    (Printed \/ MainPrinted) =>
        IF items_at_call = <<>>
        THEN PrintedLines = IF debug_mode THEN <<no_items_notice>> ELSE <<>>
        ELSE /\ Len(PrintedLines) = Len(items_at_call) + 1
             /\ PrintedLines[1] = console_header
             /\ \A i \in 1..Len(items_at_call) :
                   /\ PrintedLines[i + 1] # console_header
                   /\ PrintedLines[i + 1] = console_line(items_at_call[i])

(* Two different items printed by the routine: header and two lines.       *)
C26_Witness ==
    /\ Printed
    /\ Len(items_at_call) = 2
    /\ items_at_call[1] # items_at_call[2]
    /\ Len(output) = 3
    /\ output[1] = console_header

(* An empty sequence printed in debug mode: the notice alone.              *)
EmptyPrintInDebug ==
    /\ Printed
    /\ items_at_call = <<>>
    /\ debug_mode
    /\ output = <<no_items_notice>>

Exported == handler = "csv" /\ pc = "acted" /\ action_result = OkValue(<<>>)

RECURSIVE JoinedByComma(_)
JoinedByComma(record) ==
    IF Len(record) = 1
    THEN record[1]
    ELSE record[1] \o <<",">> \o JoinedByComma(Tail(record))

(* C27: a CSV export writes the header record first, also for an empty     *)
(* sequence, then exactly one record per item in sequence order, with the  *)
(* subreddit prefixed by r/ exactly when it is non-empty and the permalink *)
(* prefixed by the site origin.                                            *)
C27_CsvExport ==
    Exported =>
        /\ Len(output) = Len(items_at_call) + 1
        /\ JoinedByComma(output[1]) = console_header
        /\ \A i \in 1..Len(items_at_call) :
              LET record == output[i + 1]
                  item == items_at_call[i]
              IN  /\ Len(record) = 8
                  /\ record[1] = item.item_type
                  /\ record[2] = IF item.subreddit = <<>>
                                 THEN <<>>
                                 ELSE <<"r", "/">> \o item.subreddit
                  /\ record[3] = item.title
                  /\ record[4] = item.content
                  /\ record[5] = to_string(item.upvotes)
                  /\ record[6] = to_string(item.num_comments)
                  /\ record[7] = <<"h", "t", "t", "p", "s", ":", "/", "/", "r",
                                   "e", "d", "d", "i", "t", ".", "c", "o", "m">>
                                   \o item.permalink
                  /\ record[8] = to_string(item.created_utc)

(* An export of two items, one with and one without a subreddit.           *)
C27_Witness ==
    /\ Exported
    /\ Len(items_at_call) = 2
    /\ \E i, j \in 1..2 :
          /\ items_at_call[i].subreddit = <<>>
          /\ items_at_call[j].subreddit # <<>>
          /\ output[j + 1][2][1] = "r"
    /\ Len(output) = 3

(* An export of the empty sequence: the header record alone.               *)
EmptyExportHasHeader ==
    /\ Exported
    /\ items_at_call = <<>>
    /\ output = <<csv_header>>

PageRequested == page_count' = page_count + 1

(* C30: the first comment page request carries no cursor, every later      *)
(* request carries exactly the cursor that the response just before it     *)
(* returned, and the items of every page fetched, the last one included,   *)
(* are appended to the accumulator in page order.                          *)
C30_CursorProtocol ==
    [][PageRequested =>
          /\ requests' = Append(requests,
                                IF page_count = 0
                                THEN None
                                ELSE last_page[1].after)
          /\ last_page'[1].kind = "ok" =>
                all_fetched_comments' =
                    all_fetched_comments \o last_page'[1].children
          /\ last_page'[1].kind # "ok" =>
                all_fetched_comments' = all_fetched_comments]_vars

(* Three pages were fetched with two different cursors, the last page      *)
(* carries items and ends the loop, and all of them were accumulated.      *)
C30_Witness ==
    /\ page_count = 3
    /\ requests = <<None, Some(<<"a">>), Some(<<"b">>)>>
    /\ last_page[1].kind = "ok"
    /\ last_page[1].after = None
    /\ last_page[1].children = <<CommentBare, CommentOld>>
    /\ Len(all_fetched_comments) = 4
    /\ SubSeq(all_fetched_comments, 3, 4) = last_page[1].children
    /\ pc \in {"returned", "m_sorted"}

(***************************************************************************)
(* Termination of the comment loop of fetch_user_items.  The remote may    *)
(* answer anything, the same cursor again included, but at the latest its  *)
(* answer to the last page request the model follows is one that ends the  *)
(* loop: a failure, an absent cursor or an empty page.  The routine is     *)
(* sequential code that goes on as soon as the remote has answered.        *)
(***************************************************************************)
TerminatingResponses ==
    {resp \in CommentResponses :
        resp.kind # "ok" \/ resp.after = None \/ resp.children = <<>>}

TermCall == fetch_user_items_call({EmptyCriteria}, BOOLEAN \X BOOLEAN, {FALSE})
TermFetchPosts == fetch_posts(PostResponses)
TermPage ==
    /\ page_count < MaxPages - 1
    /\ fetch_comment_page(CommentResponses)
TermLastPage ==
    /\ page_count = MaxPages - 1
    /\ fetch_comment_page(TerminatingResponses)

NextTermination ==
    \/ TermCall
    \/ TermFetchPosts
    \/ TermPage
    \/ TermLastPage

SpecTermination ==
    Init /\ [][NextTermination]_vars /\ WF_vars(TermPage \/ TermLastPage)

(* A non-empty page with a cursor leaves the loop running, whatever the    *)
(* number of pages fetched and whether or not the cursor was seen before.  *)
NoPageCap ==
    (PageAnswered /\ last_page[1].n > 0 /\ last_page[1].after # None) =>
        pc = "f_comments"

(* C31: the comment loop of fetch_user_items ends, with a result or an     *)
(* error, for every remote that eventually answers with a failure, an      *)
(* absent cursor or an empty page after the first; the client has no page  *)
(* cap and does not notice a repeated cursor, so a non-empty page with a   *)
(* cursor always leads to another request.                                 *)
C31_LoopEndsOnlyByItsRule ==
    /\ []NoPageCap
    /\ (pc = "f_comments") ~> (pc = "returned" /\ result # None)

(* The remote returned the same cursor twice with non-empty pages and the  *)
(* loop is about to send it again.                                         *)
C31_Witness ==
    /\ pc = "f_comments"
    /\ page_count = 2
    /\ requests = <<None, Some(<<"a">>)>>
    /\ after_token = Some(<<"a">>)
    /\ last_page[1].n > 0
    /\ Len(all_fetched_comments) >= 2

(* The loop has ended on the remote's last answer.                         *)
LoopEndedAtLastPage ==
    /\ pc = "returned"
    /\ page_count = MaxPages
    /\ result # None

(***************************************************************************)
(* Request gating and order in fetch_user_items                            *)
(***************************************************************************)
InFetch == pc \in {"f_posts", "f_comments", "returned"}
PostFetchFailed == \E i \in 1..Len(failures) : failures[i] = "posts"

PostsOfResult == normalize_posts(SelectSeq(raw_posts, keep_post))
CommentsOfResult ==
    normalize_comments(SelectSeq(all_fetched_comments, keep_comment))

(* C32: in fetch_user_items the post listing is requested only when        *)
(* do_fetch_posts is set and comment pages only when do_fetch_comments is  *)
(* set; with both set the post request is answered before the first        *)
(* comment request; a failed post request returns an error and no comment  *)
(* request is issued; with both flags unset no request is issued and the   *)
(* result is the empty sequence; a successful result holds all posts       *)
(* before all comments, each group in the order the remote returned it.    *)
C32_RequestGatingAndOrder ==
    InFetch =>
        /\ post_requests > 0 => do_fetch_posts
        /\ page_count > 0 => do_fetch_comments
        /\ (do_fetch_posts /\ page_count > 0) =>
              (post_requests = 1 /\ ~PostFetchFailed)
        /\ (do_fetch_posts /\ pc = "f_comments") => post_requests = 1
        /\ PostFetchFailed => (page_count = 0 /\ ReturnedErr)
        /\ (~do_fetch_posts /\ ~do_fetch_comments) =>
              (post_requests = 0 /\ page_count = 0 /\ result = Ok(<<>>))
        /\ ReturnedOk =>
              /\ result[1].items = PostsOfResult \o CommentsOfResult
              /\ \A i, j \in 1..Len(result[1].items) :
                    (result[1].items[i].item_type = <<"P", "o", "s", "t">>
                       /\ result[1].items[j].item_type # <<"P", "o", "s", "t">>)
                    => i < j

(* Both sources were fetched: two posts, then comments from two pages, and *)
(* the result keeps posts before comments in the remote's order.           *)
C32_Witness ==
    /\ ReturnedOk
    /\ do_fetch_posts
    /\ do_fetch_comments
    /\ post_requests = 1
    /\ page_count = 2
    /\ Len(PostsOfResult) = 2
    /\ Len(CommentsOfResult) >= 2
    /\ result[1].items = PostsOfResult \o CommentsOfResult

(* A failed post request with both flags set: an error and no comment      *)
(* request.                                                                *)
PostFailureSkipsComments ==
    /\ ReturnedErr
    /\ do_fetch_posts
    /\ do_fetch_comments
    /\ PostFetchFailed
    /\ page_count = 0

(***************************************************************************)
(* The errors of handle_delete_action: the deletion routine alone, after a *)
(* retrieval, with a session that may lack its access token.               *)
(***************************************************************************)
NoToken == [access_token |-> None]
AnySession == LoggedIn \cup {NoToken}

DelCall == handle_delete_action_call(BOOLEAN, AnySession, BOOLEAN)

NextDelete ==
    \/ ActFetchCall
    \/ ActFetchPosts
    \/ ActFetchComments
    \/ DelCall
    \/ ReadConfirmation
    \/ DeleteItem

SpecDelete == Init /\ [][NextDelete]_vars

DeleteErr == InDelete /\ ActionDone /\ action_result[1].tag = "Err"
EndOfInputRead == stdin_reads = <<<<>>>>

(* C33: handle_delete_action returns an error only when the flush of the   *)
(* prompt or the read of the answer fails, or when the session has no      *)
(* access token; the missing token is reported at the first item with no   *)
(* delete request issued; an empty read (end of input) is a refusal,       *)
(* Ok(0), not an error.                                                    *)
C33_DeleteErrorsOnlyPromptOrToken ==
    /\ DeleteErr =>
          /\ action_result[1].error \in {"flush", "read_line", "token"}
          /\ action_result[1].error \in {"flush", "read_line"} =>
                (~skip_confirmation /\ prompts = 1 /\ ~confirmed_to_delete)
          /\ action_result[1].error = "token" =>
                /\ session.access_token = None
                /\ confirmed_to_delete
                /\ index = 0
          /\ api_requests = <<>>
    /\ (InDelete /\ ActionDone /\ session.access_token = None
          /\ confirmed_to_delete /\ all_items # <<>>) => DeleteErr
    /\ (InDelete /\ api_requests # <<>>) => session.access_token # None
    /\ (InDelete /\ ActionDone /\ EndOfInputRead) =>
          (action_result = OkValue(0) /\ api_requests = <<>>)

(* A confirmed deletion of two items without a token: the error comes at   *)
(* the first item.                                                         *)
C33_Witness ==
    /\ DeleteErr
    /\ action_result[1].error = "token"
    /\ Len(all_items) >= 2
    /\ stdin_reads # <<>>
    /\ confirmation_is_yes(stdin_reads[1])
    /\ index = 0
    /\ api_requests = <<>>

ReadFailureIsError == DeleteErr /\ action_result[1].error = "read_line"
FlushFailureIsError == DeleteErr /\ action_result[1].error = "flush"
EndOfInputRefuses ==
    /\ InDelete
    /\ ActionDone
    /\ EndOfInputRead
    /\ all_items # <<>>
    /\ action_result = OkValue(0)
NoTokenButRefused ==
    /\ InDelete
    /\ ActionOk
    /\ session.access_token = None
    /\ all_items # <<>>

(***************************************************************************)
(* main's per-item deletion loop                                           *)
(***************************************************************************)
InMainDelete == handler = "main_delete" /\ pc \in {"m_prompt", "m_done"}

(* The lines read so far, up to the k-th, whose answer is one of `wanted`. *)
ReadsAnswering(wanted, k) ==
    {r \in 1..k : Answer(stdin_reads[r]) \in wanted}
Proceeds(k) == Cardinality(ReadsAnswering({<<"y">>}, k))
Skips(k) == Cardinality(ReadsAnswering({<<"n">>}, k))
FailedDeletes ==
    {j \in 1..Len(api_requests) : api_requests[j].outcome # "success"}

(* C34: in main's per-item deletion loop, reading the answer (the line     *)
(* trimmed and lowercased) `y` issues the one delete request of the        *)
(* current item and no request is issued otherwise; `n` moves to the next  *)
(* item without a request; `a` ends the run, so nothing is read or         *)
(* requested after it; any other answer leaves the loop at the same item;  *)
(* and deleted_count + skipped_count <= items processed, with equality iff *)
(* no issued delete request failed.                                        *)
C34_ProceedSkipAbort ==
    InMainDelete =>
        LET reads == Len(stdin_reads) IN
        /\ Len(api_requests) = Proceeds(reads)
        /\ \A k \in ReadsAnswering({<<"y">>}, reads) :
              api_requests[Proceeds(k)].id =
                  all_items[Proceeds(k) + Skips(k)].id
        /\ fail_count = Skips(reads)
        /\ index = Proceeds(reads) + Skips(reads)
        /\ index <= Len(all_items)
        /\ \A k \in ReadsAnswering({<<"a">>}, reads) :
              k = reads /\ pc = "m_done"
        /\ success_count = Len(api_requests) - Cardinality(FailedDeletes)
        /\ success_count + fail_count <= index
        /\ (success_count + fail_count = index) <=> (FailedDeletes = {})

(* Three answers over two items: an unknown answer, then `y` whose request *)
(* fails, then `n`: one request, for the first item, and counters that sum *)
(* to less than the items processed.                                       *)
C34_Witness ==
    /\ InMainDelete
    /\ pc = "m_done"
    /\ action_result = None
    /\ Len(all_items) = 2
    /\ Len(stdin_reads) = 3
    /\ main_arm(Answer(stdin_reads[1])) = "invalid"
    /\ Answer(stdin_reads[2]) = <<"y">>
    /\ Answer(stdin_reads[3]) = <<"n">>
    /\ Len(api_requests) = 1
    /\ api_requests[1].id = all_items[1].id
    /\ api_requests[1].outcome # "success"
    /\ success_count = 0
    /\ fail_count = 1
    /\ index = 2

AbortEndsRun ==
    /\ InMainDelete
    /\ pc = "m_done"
    /\ Len(stdin_reads) = 2
    /\ Answer(stdin_reads[1]) = <<"y">>
    /\ Answer(stdin_reads[2]) = <<"a">>
    /\ index = 1
    /\ index < Len(all_items)
    /\ Len(api_requests) = 1

(***************************************************************************)
(* The search stops at the first candidate that is not NotFound            *)
(***************************************************************************)
LaterValid(k) ==
    \E j \in (k + 1)..Len(Candidates) :
        util_input[1].files[Candidates[j]] = "valid"

(* C35: load_config_with_env stops at the first candidate that is not      *)
(* NotFound: a read error of another kind on it, or a parse failure of its *)
(* contents, is the result, names that candidate, and no later candidate   *)
(* is used, even one that holds a valid configuration.                     *)
C35_StopsAtFirstNotMissing ==
    ConfigLoaded =>
        LET out == util_output[1]
            k == FirstExisting
            state == IF k = 0 THEN "missing"
                     ELSE util_input[1].files[Candidates[k]]
        IN  /\ state = "denied" =>
                  /\ out.tag = "Err"
                  /\ out.kind = "PermissionDenied"
                  /\ out.msg = "Failed to read config file"
                  /\ out.file = Candidates[k]
                  /\ out.stderr = <<>>
            /\ state = "invalid" =>
                  /\ out.tag = "Err"
                  /\ out.kind = "InvalidData"
                  /\ out.msg = "Failed to parse config file"
                  /\ out.file = Candidates[k]
            /\ out.tag = "Ok" => state = "valid"
            /\ (out.tag = "Err" /\ out.kind # "NotFound") =>
                  (k > 0 /\ out.file = Candidates[k])

(* The second candidate cannot be read and the third is valid: the read    *)
(* error of the second is the result.                                      *)
C35_Witness ==
    /\ ConfigLoaded
    /\ FirstExisting = 2
    /\ util_input[1].files[Candidates[2]] = "denied"
    /\ LaterValid(2)
    /\ util_output[1].tag = "Err"
    /\ util_output[1].kind = "PermissionDenied"
    /\ util_output[1].file = Candidates[2]

(* The first candidate does not parse and a later one is valid.            *)
ParseFailureHidesLaterValid ==
    /\ ConfigLoaded
    /\ FirstExisting = 1
    /\ util_input[1].files[Candidates[1]] = "invalid"
    /\ LaterValid(1)
    /\ util_output[1].tag = "Err"
    /\ util_output[1].kind = "InvalidData"
    /\ util_output[1].file = Candidates[1]

=============================================================================
